---- MODULE Spec2Model ----
(***************************************************************************)
(* fintracker-v2: the pension reconciliation of                            *)
(* pensions/staging/create_pensions_staging_tables.py and the portfolio    *)
(* analytics of coinbase/analytics_calculator.py.                          *)
(*                                                                         *)
(* Numbers.  A pandas float64 cell is a record [k, n, d]: k = "fin" is the *)
(* rational n/d in lowest terms (d > 0), k = "nan" is NaN (pandas' null),  *)
(* k = "inf" / "ninf" are +infinity / -infinity.  A finite cell is in fact *)
(* (n/d) * sqrt(rn/rd), with rn = rd = 1 unless a square root was taken,   *)
(* so that standard deviations stay exact.  The arithmetic follows         *)
(* IEEE 754 for the special values (x/0, 0/0, inf - inf, ...) and is exact *)
(* on finite values: binary rounding error and the sign of zero are not    *)
(* modelled.                                                               *)
(***************************************************************************)
EXTENDS Integers, Sequences, FiniteSets, TLC

VARIABLES
    cashflows_df,          \* input: the cleansed cashflow log, rows [platform, timestamp, value]
    snapshots_df,          \* input: the cleansed snapshot log, rows [platform, timestamp, value]
    call,                  \* which invocation of calculate_performance_timeseries is running
    platform_i,            \* position of the for loop in pension_platforms
    all_performance_data,  \* the dict the running invocation is filling
    returned,              \* the dicts returned by the finished invocations, in order
    tie_order,             \* per platform, the row orders the two sort_values calls produced
    portfolio_snapshots,   \* processed_data["portfolio_snapshots"], rows [date, total_portfolio_value]
    analytics_pc,          \* position of analytics_calculator.main
    performance_local,     \* the frame local to calculate_performance_metrics when it returns
    performance_metrics,   \* the table calculate_performance_metrics returned
    risk_local,            \* the frame local to calculate_risk_metrics when it returns
    risk_metrics,          \* the table calculate_risk_metrics returned
    raw_positions,         \* data_transformer: raw_data["positions"]["positions"]
    raw_prices,            \* data_transformer: raw_data["prices"]["prices"]
    transform_pc,          \* position of data_transformer.main
    snapshots_created,     \* the table create_portfolio_snapshots returned
    pnl_created,           \* the table create_pnl_tracking returned
    current_positions,     \* argument of calculate_allocation_analysis
    snapshots_arg,         \* argument portfolio_snapshots of calculate_allocation_analysis
    allocation_pc,         \* whether calculate_allocation_analysis was called
    allocation_analysis,   \* what calculate_allocation_analysis returned or raised
    prices,                \* argument of calculate_correlation_metrics
    correlation_pc,        \* whether calculate_correlation_metrics was called
    correlation_metrics,   \* the single-row table calculate_correlation_metrics returned
    batch_fn,              \* the function whose per-entity loop is running
    batch_i,               \* position of that loop in its entities
    batch_raised,          \* the entities whose computation raised
    batch_skipped,         \* the entities the loop left out by its own guard
    batch_results,         \* the entities that yielded a result, in order
    batch_status,          \* "running", "returned" or "raised"
    run_pc,                \* position of analytics_calculator.main with its collaborators
    run_artifacts,         \* the artifacts computed so far, artifact -> record count
    run_persisted,         \* the artifacts uploaded so far, in order
    run_result,            \* what main returned, or "raised"
    pipeline_pc,           \* position of run_full_pipeline
    steps_started,         \* the steps entered so far, in order
    steps_completed,       \* pipeline_results["steps_completed"], the step names
    overall_status,        \* pipeline_results["overall_status"]
    pipeline_result        \* what run_full_pipeline returned, or "raised"

pension_vars == <<cashflows_df, snapshots_df, call, platform_i,
                  all_performance_data, returned, tie_order>>

analytics_vars == <<portfolio_snapshots, analytics_pc, performance_local,
                    performance_metrics, risk_local, risk_metrics>>

transform_vars == <<raw_positions, raw_prices, transform_pc, snapshots_created,
                    pnl_created>>

allocation_vars == <<current_positions, snapshots_arg, allocation_pc,
                     allocation_analysis>>

correlation_vars == <<prices, correlation_pc, correlation_metrics>>

batch_vars == <<batch_fn, batch_i, batch_raised, batch_skipped, batch_results,
                batch_status>>

run_vars == <<run_pc, run_artifacts, run_persisted, run_result>>

pipeline_vars == <<pipeline_pc, steps_started, steps_completed, overall_status,
                   pipeline_result>>

vars == <<pension_vars, analytics_vars, transform_vars, allocation_vars,
          correlation_vars, batch_vars, run_vars, pipeline_vars>>

\* an empty dict, and a frame or table that does not exist yet
NoData == [p \in {} |-> <<>>]

\* Each pipeline is its own program: while one runs, the state of the other
\* is the state before its main is entered.
PensionsNotStarted ==
    /\ cashflows_df = <<>> /\ snapshots_df = <<>>
    /\ call = 0 /\ platform_i = 0
    /\ all_performance_data = NoData /\ returned = <<>> /\ tie_order = NoData

AnalyticsNotStarted ==
    /\ portfolio_snapshots = <<>> /\ analytics_pc = "not started"
    /\ performance_local = NoData /\ performance_metrics = NoData
    /\ risk_local = NoData /\ risk_metrics = NoData

TransformNotStarted ==
    /\ raw_positions = <<>> /\ raw_prices = <<>> /\ transform_pc = "not started"
    /\ snapshots_created = <<>> /\ pnl_created = <<>>

AllocationNotStarted ==
    /\ current_positions = <<>> /\ snapshots_arg = <<>>
    /\ allocation_pc = "not started" /\ allocation_analysis = NoData

CorrelationNotStarted ==
    /\ prices = <<>> /\ correlation_pc = "not started" /\ correlation_metrics = NoData

BatchNotStarted ==
    /\ batch_fn = "" /\ batch_i = 0 /\ batch_raised = {} /\ batch_skipped = {}
    /\ batch_results = <<>> /\ batch_status = "not started"

RunNotStarted ==
    /\ run_pc = "not started" /\ run_artifacts = NoData
    /\ run_persisted = <<>> /\ run_result = NoData

PipelineNotStarted ==
    /\ pipeline_pc = "not started" /\ steps_started = <<>>
    /\ steps_completed = <<>> /\ overall_status = "" /\ pipeline_result = NoData

OrchestrationNotStarted == BatchNotStarted /\ RunNotStarted /\ PipelineNotStarted
orchestration_vars == <<batch_vars, run_vars, pipeline_vars>>

\* what each program leaves alone
outside_pensions == <<analytics_vars, transform_vars, allocation_vars, correlation_vars, orchestration_vars>>
outside_analytics == <<pension_vars, transform_vars, allocation_vars, correlation_vars, orchestration_vars>>
outside_transform == <<pension_vars, analytics_vars, allocation_vars, correlation_vars, orchestration_vars>>
outside_allocation == <<pension_vars, analytics_vars, transform_vars, correlation_vars, orchestration_vars>>
outside_correlation == <<pension_vars, analytics_vars, transform_vars, allocation_vars, orchestration_vars>>

OnlyPensions ==
    AnalyticsNotStarted /\ TransformNotStarted /\ AllocationNotStarted
        /\ CorrelationNotStarted /\ OrchestrationNotStarted
OnlyAnalytics ==
    PensionsNotStarted /\ TransformNotStarted /\ AllocationNotStarted
        /\ CorrelationNotStarted /\ OrchestrationNotStarted
OnlyTransform ==
    PensionsNotStarted /\ AnalyticsNotStarted /\ AllocationNotStarted
        /\ CorrelationNotStarted /\ OrchestrationNotStarted
OnlyAllocation ==
    PensionsNotStarted /\ AnalyticsNotStarted /\ TransformNotStarted
        /\ CorrelationNotStarted /\ OrchestrationNotStarted
OnlyCorrelation ==
    PensionsNotStarted /\ AnalyticsNotStarted /\ TransformNotStarted
        /\ AllocationNotStarted /\ OrchestrationNotStarted

DataNotStarted ==
    PensionsNotStarted /\ AnalyticsNotStarted /\ TransformNotStarted
        /\ AllocationNotStarted /\ CorrelationNotStarted
data_vars == <<pension_vars, analytics_vars, transform_vars, allocation_vars,
               correlation_vars>>
outside_batch == <<data_vars, run_vars, pipeline_vars>>
outside_run == <<data_vars, batch_vars, pipeline_vars>>
outside_pipeline == <<data_vars, batch_vars, run_vars>>
OnlyBatch == DataNotStarted /\ RunNotStarted /\ PipelineNotStarted
OnlyRun == DataNotStarted /\ BatchNotStarted /\ PipelineNotStarted
OnlyPipeline == DataNotStarted /\ BatchNotStarted /\ RunNotStarted

----------------------------------------------------------------------------
(* float64 cells *)

Abs(x) == IF x < 0 THEN -x ELSE x

RECURSIVE GCD(_, _)
GCD(a, b) == IF b = 0 THEN a ELSE GCD(b, a % b)

NaN == [k |-> "nan", n |-> 0, d |-> 1, rn |-> 1, rd |-> 1]
PosInf == [k |-> "inf", n |-> 0, d |-> 1, rn |-> 1, rd |-> 1]
NegInf == [k |-> "ninf", n |-> 0, d |-> 1, rn |-> 1, rd |-> 1]

\* (n/d) * sqrt(rn/rd), both fractions in lowest terms; d, rn, rd # 0
Surd(n, d, rn, rd) ==
    LET g == GCD(Abs(n), Abs(d))
        s == IF d < 0 THEN -1 ELSE 1
        h == GCD(rn, rd)
    IN  IF n = 0
        THEN [k |-> "fin", n |-> 0, d |-> 1, rn |-> 1, rd |-> 1]
        ELSE [k |-> "fin", n |-> s * (n \div g), d |-> s * (d \div g),
              rn |-> rn \div h, rd |-> rd \div h]

\* n/d
Fin(n, d) == Surd(n, d, 1, 1)

Num(i) == Fin(i, 1)
Zero == Num(0)

IsNull(a) == a.k = "nan"
IsFinite(a) == a.k \in {"fin", "sum"}
IsInf(a) == a.k \in {"inf", "ninf"}

\* -1, 0, 1; of a non-null cell
Sign(a) ==
    CASE a.k = "inf" -> 1
      [] a.k = "ninf" -> -1
      [] OTHER -> IF a.n > 0 THEN 1 ELSE IF a.n < 0 THEN -1 ELSE 0

Signed(s) == IF s > 0 THEN PosInf ELSE NegInf

SameRadicand(a, b) == a.rn = b.rn /\ a.rd = b.rd

FNeg(a) ==
    CASE a.k = "nan" -> NaN
      [] a.k = "inf" -> NegInf
      [] a.k = "ninf" -> PosInf
      [] OTHER -> Surd(-a.n, a.d, a.rn, a.rd)

\* (a sum of two finite cells with different radicands is kept as the pair
\* of its terms, k = "sum"; nothing is computed from such a cell)
FAdd(a, b) ==
    CASE IsNull(a) \/ IsNull(b) -> NaN
      [] IsInf(a) /\ IsInf(b) -> IF a.k = b.k THEN a ELSE NaN
      [] IsInf(a) -> a
      [] IsInf(b) -> b
      [] a.n = 0 -> b
      [] b.n = 0 -> a
      [] SameRadicand(a, b) ->
            LET g == GCD(a.d, b.d)
            IN  Surd(a.n * (b.d \div g) + b.n * (a.d \div g), a.d * (b.d \div g),
                     a.rn, a.rd)
      [] OTHER -> [k |-> "sum", terms |-> <<a, b>>]

FSub(a, b) == FAdd(a, FNeg(b))

FMul(a, b) ==
    CASE IsNull(a) \/ IsNull(b) -> NaN
      [] IsInf(a) \/ IsInf(b) ->
            IF Sign(a) * Sign(b) = 0 THEN NaN ELSE Signed(Sign(a) * Sign(b))
      [] OTHER -> Surd(a.n * b.n, a.d * b.d, a.rn * b.rn, a.rd * b.rd)

\* IEEE division: x/0 is +-inf, 0/0 and inf/inf are NaN; nothing raises
FDiv(a, b) ==
    CASE IsNull(a) \/ IsNull(b) -> NaN
      [] IsInf(a) /\ IsInf(b) -> NaN
      [] IsInf(a) -> IF Sign(b) < 0 THEN FNeg(a) ELSE a
      [] IsInf(b) -> Zero
      [] b.n = 0 -> IF a.n = 0 THEN NaN ELSE Signed(a.n)
      [] OTHER -> Surd(a.n * b.d, a.d * b.n, a.rn * b.rd, a.rd * b.rn)

\* comparisons are false when an operand is NaN
\* (finite cells are compared by sign, or with the same radicand)
FLt(a, b) ==
    /\ ~IsNull(a) /\ ~IsNull(b)
    /\ CASE a.k = "ninf" -> b.k # "ninf"
         [] a.k = "inf" -> FALSE
         [] b.k = "inf" -> TRUE
         [] b.k = "ninf" -> FALSE
         [] Sign(a) # Sign(b) -> Sign(a) < Sign(b)
         [] Sign(a) = 0 -> FALSE
         [] SameRadicand(a, b) -> a.n * b.d < b.n * a.d

FLe(a, b) == ~IsNull(a) /\ ~IsNull(b) /\ ~FLt(b, a)

FAbs(a) == IF IsNull(a) THEN NaN ELSE IF Sign(a) < 0 THEN FNeg(a) ELSE a

\* np.sqrt of a rational cell
Sqrt(a) ==
    CASE a.k = "nan" \/ a.k = "ninf" -> NaN
      [] a.k = "inf" -> PosInf
      [] a.n < 0 -> NaN
      [] a.n = 0 -> Zero
      [] SameRadicand(a, Zero) -> Surd(1, 1, a.n, a.d)

\* the integer nearest to n/d (d > 0), halves to the even one, as numpy's rint
RoundHalfEven(n, d) ==
    LET q == n \div d
        r == n % d
    IN  IF 2 * r < d THEN q
        ELSE IF 2 * r > d THEN q + 1
        ELSE IF q % 2 = 0 THEN q ELSE q + 1

\* Series.round(decimals) of a rational cell: NaN and the infinities pass through
Round(a, decimals) ==
    LET scale == 10 ^ decimals
    IN  IF IsFinite(a) THEN Fin(RoundHalfEven(a.n * scale, a.d), scale) ELSE a

----------------------------------------------------------------------------
(* PensionsStagingCreator: inputs *)

pension_platforms == <<"Wahed", "Standard Life">>
Platforms == {pension_platforms[i] : i \in 1..Len(pension_platforms)}

MaxTime == 3
MaxCash == 2
MaxSnap == 2

Times == 0..MaxTime
CashValues == {1000, -1000}
SnapshotValues == {1200, 1000}

PlatformIndex(p) == CHOOSE i \in 1..Len(pension_platforms) : pension_platforms[i] = p

\* The logs are taken newest row first, then by platform and value: of the
\* arrangements of the same rows one is enough, because nothing below
\* depends on the order of tied rows in the input.
RowLeq(a, b) ==
    \/ a.timestamp > b.timestamp
    \/ /\ a.timestamp = b.timestamp
       /\ \/ PlatformIndex(a.platform) < PlatformIndex(b.platform)
          \/ /\ a.platform = b.platform
             /\ a.value <= b.value

EventLogs(values, maxRows) ==
    LET Row == [platform : Platforms, timestamp : Times, value : values]
    IN  {s \in UNION {[1..n -> Row] : n \in 0..maxRows} :
            \A i \in 1..(Len(s) - 1) : RowLeq(s[i], s[i + 1])}

----------------------------------------------------------------------------
(* PensionsStagingCreator.calculate_performance_timeseries: the steps *)

\* df[df["platform"] == platform].copy()
PlatformRows(df, platform) == SelectSeq(df, LAMBDA r : r.platform = platform)

\* DataFrame.sort_values("timestamp"): kind defaults to "quicksort", which
\* pandas documents as not stable, so rows with equal timestamps come out in
\* an order the library chooses.  The set of the outcomes it can produce.
SortValues(rows) ==
    LET n == Len(rows)
    IN  {[i \in 1..n |-> rows[f[i]]] :
            f \in {g \in Permutations(1..n) :
                    \A i \in 1..(n - 1) :
                        rows[g[i]].timestamp <= rows[g[i + 1]].timestamp}}

\* Series.cumsum()
CumSum(col) ==
    LET f[i \in 1..Len(col)] == IF i = 1 THEN col[i] ELSE FAdd(f[i - 1], col[i])
    IN  [i \in 1..Len(col) |-> f[i]]

\* platform_cashflows[["timestamp", "cash_invested"]] after the cumsum
CashEvents(sorted_cashflows) ==
    LET total == CumSum([i \in 1..Len(sorted_cashflows) |-> Num(sorted_cashflows[i].value)])
    IN  [i \in 1..Len(sorted_cashflows) |->
            [timestamp |-> sorted_cashflows[i].timestamp,
             cash_invested |-> total[i],
             pension_value |-> NaN]]

\* platform_snapshots[["timestamp", "pension_value"]] after the rename
SnapshotEvents(platform_snapshots) ==
    [i \in 1..Len(platform_snapshots) |->
        [timestamp |-> platform_snapshots[i].timestamp,
         cash_invested |-> NaN,
         pension_value |-> Num(platform_snapshots[i].value)]]

\* pd.concat([...]): the columns a frame lacks are NaN
ConcatEvents(sorted_cashflows, platform_snapshots) ==
    CashEvents(sorted_cashflows) \o SnapshotEvents(platform_snapshots)

\* the least and the greatest element of a non-empty set of integers
Earliest(S) == CHOOSE x \in S : \A y \in S : x <= y
Latest(S) == CHOOSE x \in S : \A y \in S : y <= x

\* the elements of a set of integers in increasing order
RECURSIVE Ascending(_)
Ascending(S) ==
    IF S = {} THEN <<>>
    ELSE <<Earliest(S)>> \o Ascending(S \ {Earliest(S)})

\* GroupBy.last() of one column: the last non-null cell of the group
LastValid(col) ==
    LET valid == {i \in 1..Len(col) : ~IsNull(col[i])}
    IN  IF valid = {} THEN NaN
        ELSE col[Latest(valid)]

\* no aggregation: one row per event
UngroupedEvents(events) == events

\* events_df.groupby("timestamp").last().reset_index(): one row per
\* timestamp, in increasing order
GroupByLast(events) ==
    LET keys == Ascending({events[i].timestamp : i \in 1..Len(events)})
        Group(t) == SelectSeq(events, LAMBDA e : e.timestamp = t)
        Col(g, c) == [i \in 1..Len(g) |-> g[i][c]]
    IN  [k \in 1..Len(keys) |->
            [timestamp |-> keys[k],
             cash_invested |-> LastValid(Col(Group(keys[k]), "cash_invested")),
             pension_value |-> LastValid(Col(Group(keys[k]), "pension_value"))]]

\* the valid (non-null) cells of a column before and after position i
ValidBefore(col, i) == {j \in 1..(i - 1) : ~IsNull(col[j])}
ValidAfter(col, i) == {j \in (i + 1)..Len(col) : ~IsNull(col[j])}

\* the line through (times[a], col[a]) and (times[b], col[b]) at times[i]
LineAt(times, col, a, b, i) ==
    FAdd(col[a],
         FMul(FSub(col[b], col[a]),
              Fin(times[i] - times[a], times[b] - times[a])))

\* limit_direction="both": the leading nulls take the first valid value too
InterpolateBothDirections(times, col) ==
    [i \in 1..Len(col) |->
        LET before == ValidBefore(col, i)
            after == ValidAfter(col, i)
        IN  IF ~IsNull(col[i]) THEN col[i]
            ELSE IF before = {} /\ after = {} THEN NaN
            ELSE IF before = {} THEN col[Earliest(after)]
            ELSE IF after = {} THEN col[Latest(before)]
            ELSE LineAt(times, col, Latest(before), Earliest(after), i)]

\* method="linear": the line over the row positions, not over the timestamps
InterpolateLinear(times, col) ==
    [i \in 1..Len(col) |->
        LET before == ValidBefore(col, i)
            after == ValidAfter(col, i)
            positions == [j \in 1..Len(col) |-> j]
        IN  IF ~IsNull(col[i]) THEN col[i]
            ELSE IF before = {} THEN NaN
            ELSE IF after = {} THEN col[Latest(before)]
            ELSE LineAt(positions, col, Latest(before), Earliest(after), i)]

\* Series.interpolate(method="time") on a DatetimeIndex: a null cell between
\* two valid cells is the line through them at the cell's timestamp; the
\* nulls after the last valid cell take its value (limit_direction is
\* "forward"); the nulls before the first valid cell stay null.
InterpolateTime(times, col) ==
    [i \in 1..Len(col) |->
        LET before == ValidBefore(col, i)
            after == ValidAfter(col, i)
        IN  IF ~IsNull(col[i]) THEN col[i]
            ELSE IF before = {} THEN NaN
            ELSE IF after = {} THEN col[Latest(before)]
            ELSE LineAt(times, col, Latest(before), Earliest(after), i)]

\* Series.ffill()
Ffill(col) ==
    LET f[i \in 1..Len(col)] ==
            IF ~IsNull(col[i]) \/ i = 1 THEN col[i] ELSE f[i - 1]
    IN  [i \in 1..Len(col) |-> f[i]]

\* fillna(0) in place of fillna(other)
FillnaZero(col, other) ==
    [i \in 1..Len(col) |-> IF IsNull(col[i]) THEN Zero ELSE col[i]]

\* Series.fillna(other)
Fillna(col, other) ==
    [i \in 1..Len(col) |-> IF IsNull(col[i]) THEN other[i] ELSE col[i]]

Column(table, c) == [i \in 1..Len(table) |-> table[i][c]]

\* Steps 2 and 3: the imputed value and the forward-filled cash invested
Impute(events) ==
    LET times == Column(events, "timestamp")
        interpolated == InterpolateTime(times, Column(events, "pension_value"))
        cash == Ffill(Column(events, "cash_invested"))
        imputed == Ffill(Fillna(interpolated, cash))
    IN  [i \in 1..Len(events) |->
            [timestamp |-> events[i].timestamp,
             cash_invested |-> cash[i],
             pension_value |-> events[i].pension_value,
             imputed_pension_value |-> imputed[i]]]

\* events_df.dropna(subset=["cash_invested", "imputed_pension_value"])
Dropna(events) ==
    SelectSeq(events, LAMBDA e : ~IsNull(e.cash_invested) /\ ~IsNull(e.imputed_pension_value))

\* 100 * (gain / cash_invested)
Percentage(gain, cash_invested) == FMul(Num(100), FDiv(gain, cash_invested))

\* the gain/loss taken from the imputed value instead of the observed one
FinalRowGainFromImputed(e) ==
    LET imputed_gain == FSub(e.imputed_pension_value, e.cash_invested)
    IN  [timestamp |-> e.timestamp,
         cash_invested |-> Round(e.cash_invested, 2),
         pension_value |-> Round(e.pension_value, 2),
         imputed_pension_value |-> Round(e.imputed_pension_value, 2),
         gain_loss_absolute |-> Round(imputed_gain, 2),
         gain_loss_percentage |-> Round(Percentage(imputed_gain, e.cash_invested), 2),
         imputed_gain_loss_absolute |-> Round(imputed_gain, 2),
         imputed_gain_loss_percentage |->
             Round(Percentage(imputed_gain, e.cash_invested), 2)]

\* Steps 4 and 5: the gain/loss columns, then every numeric column rounded
\* to 2 decimals
FinalRow(e) ==
    LET gain == FSub(e.pension_value, e.cash_invested)
        imputed_gain == FSub(e.imputed_pension_value, e.cash_invested)
    IN  [timestamp |-> e.timestamp,
         cash_invested |-> Round(e.cash_invested, 2),
         pension_value |-> Round(e.pension_value, 2),
         imputed_pension_value |-> Round(e.imputed_pension_value, 2),
         gain_loss_absolute |-> Round(gain, 2),
         gain_loss_percentage |-> Round(Percentage(gain, e.cash_invested), 2),
         imputed_gain_loss_absolute |-> Round(imputed_gain, 2),
         imputed_gain_loss_percentage |->
             Round(Percentage(imputed_gain, e.cash_invested), 2)]

\* final_df of one platform, from the outcome of the second sort_values
FinalFrame(sorted_events) ==
    LET kept == Dropna(Impute(GroupByLast(sorted_events)))
    IN  [i \in 1..Len(kept) |-> FinalRow(kept[i])]

----------------------------------------------------------------------------
(* PensionsStagingCreator.calculate_performance_timeseries: the loop.       *)
(* The function is invoked twice on the same two frames.                    *)

\* the argument sorted in place (sort_values(..., inplace=True) on it)
CallerFrameSortedInPlace(df) == CHOOSE s \in SortValues(df) : TRUE

\* The frames the caller holds after the call: the loop works on filtered
\* copies and assigns nothing to its arguments.
CallerFrame(df) == df

InitPensions ==
    /\ cashflows_df \in EventLogs(CashValues, MaxCash)
    /\ snapshots_df \in EventLogs(SnapshotValues, MaxSnap)
    /\ call = 1
    /\ platform_i = 1
    /\ all_performance_data = NoData
    /\ returned = <<>>
    /\ tie_order = NoData
    /\ OnlyPensions

Running == call \in 1..2 /\ platform_i <= Len(pension_platforms)

\* "and" in place of "or"
NotEnoughDataBoth(platform_cashflows, platform_snapshots) ==
    platform_cashflows = <<>> /\ platform_snapshots = <<>>

\* platform_cashflows.empty or platform_snapshots.empty
NotEnoughData(platform_cashflows, platform_snapshots) ==
    platform_cashflows = <<>> \/ platform_snapshots = <<>>

\* lines 66-68: not enough data, continue
SkipPlatform ==
    LET platform == pension_platforms[platform_i]
    IN  /\ Running
        /\ NotEnoughData(PlatformRows(cashflows_df, platform),
                         PlatformRows(snapshots_df, platform))
        /\ platform_i' = platform_i + 1
        /\ cashflows_df' = CallerFrame(cashflows_df)
        /\ snapshots_df' = CallerFrame(snapshots_df)
        /\ UNCHANGED <<call, all_performance_data, returned, tie_order, outside_pensions>>

\* lines 70-144: one platform's final_df.  A sort_values call is a function
\* of its input, so the second invocation sorts as the first did.
ReconcilePlatform ==
    LET platform == pension_platforms[platform_i]
        platform_cashflows == PlatformRows(cashflows_df, platform)
        platform_snapshots == PlatformRows(snapshots_df, platform)
    IN  /\ Running
        /\ ~NotEnoughData(platform_cashflows, platform_snapshots)
        /\ \E sorted_cashflows \in SortValues(platform_cashflows) :
             \E events_df \in SortValues(ConcatEvents(sorted_cashflows, platform_snapshots)) :
                /\ platform \in DOMAIN tie_order
                      => tie_order[platform] = <<sorted_cashflows, events_df>>
                /\ tie_order' = (platform :> <<sorted_cashflows, events_df>>) @@ tie_order
                /\ all_performance_data' =
                      (platform :> FinalFrame(events_df)) @@ all_performance_data
        /\ platform_i' = platform_i + 1
        /\ cashflows_df' = CallerFrame(cashflows_df)
        /\ snapshots_df' = CallerFrame(snapshots_df)
        /\ UNCHANGED <<call, returned, outside_pensions>>

\* line 146: return all_performance_data; the caller then calls again
ReturnPerformanceData ==
    /\ call \in 1..2
    /\ platform_i > Len(pension_platforms)
    /\ returned' = Append(returned, all_performance_data)
    /\ call' = call + 1
    /\ platform_i' = 1
    /\ all_performance_data' = NoData
    /\ UNCHANGED <<cashflows_df, snapshots_df, tie_order, outside_pensions>>

NextPensions == SkipPlatform \/ ReconcilePlatform \/ ReturnPerformanceData

PensionSpec == InitPensions /\ [][NextPensions]_vars

----------------------------------------------------------------------------
(* The reconciled series against the two event logs *)

Contributions(platform) == PlatformRows(cashflows_df, platform)
Valuations(platform) == PlatformRows(snapshots_df, platform)

TimesOf(rows) == {rows[i].timestamp : i \in 1..Len(rows)}

\* the sum of the contributions made up to t
CashUpTo(platform, t) ==
    LET rows == Contributions(platform)
        f[i \in 0..Len(rows)] ==
            IF i = 0 THEN 0
            ELSE f[i - 1] + IF rows[i].timestamp <= t THEN rows[i].value ELSE 0
    IN  f[Len(rows)]

\* every dict built so far: the one being filled and the returned ones
Dicts == {all_performance_data} \cup {returned[i] : i \in 1..Len(returned)}

\* every (platform, final_df) pair produced so far
Produced == UNION {{<<p, d[p]>> : p \in DOMAIN d} : d \in Dicts}

RowAt(frame, t) == frame[CHOOSE i \in 1..Len(frame) : frame[i].timestamp = t]
HasRowAt(frame, t) == \E i \in 1..Len(frame) : frame[i].timestamp = t

Near(a, b, tolerance) == FLe(FAbs(FSub(a, b)), tolerance)

\* C1: in a reconciled series, a row before the account's first valuation
\* has imputed value = cash invested, and a row after its last valuation
\* has the imputed value of the last valuation row, which is a value
\* observed at that timestamp.
C1_BoundaryPolicy ==
    \A pf \in Produced :
        LET platform == pf[1]
            frame == pf[2]
            first == Earliest(TimesOf(Valuations(platform)))
            last == Latest(TimesOf(Valuations(platform)))
        IN  \A i \in 1..Len(frame) :
                /\ frame[i].timestamp < first =>
                      frame[i].imputed_pension_value = frame[i].cash_invested
                /\ frame[i].timestamp > last =>
                      /\ \E j \in 1..Len(Valuations(platform)) :
                            /\ Valuations(platform)[j].timestamp = last
                            /\ frame[i].imputed_pension_value =
                                  Round(Num(Valuations(platform)[j].value), 2)
                      /\ HasRowAt(frame, last) =>
                            frame[i].imputed_pension_value =
                               RowAt(frame, last).imputed_pension_value

\* a series with a row before the first valuation and a row after the last
C1_Witness ==
    \E pf \in Produced :
        \E i, j \in 1..Len(pf[2]) :
            /\ pf[2][i].timestamp < Earliest(TimesOf(Valuations(pf[1])))
            /\ pf[2][j].timestamp > Latest(TimesOf(Valuations(pf[1])))
            /\ HasRowAt(pf[2], Latest(TimesOf(Valuations(pf[1]))))

\* the scenario of C2: the first contribution is the +1000 at t0, the only
\* valuation is 1200 at t2, and the series has a row at t1, t0 < t1 < t2
Scenario(platform, frame, t0, t1, t2) ==
    /\ t0 < t1 /\ t1 < t2
    /\ Earliest(TimesOf(Contributions(platform))) = t0
    /\ SelectSeq(Contributions(platform), LAMBDA r : r.timestamp = t0)
          = <<[platform |-> platform, timestamp |-> t0, value |-> 1000]>>
    /\ Len(Valuations(platform)) = 1
    /\ Valuations(platform)[1].timestamp = t2
    /\ Valuations(platform)[1].value = 1200
    /\ HasRowAt(frame, t0) /\ HasRowAt(frame, t1) /\ HasRowAt(frame, t2)

\* C2 as stated: imputed(t0) = 1000, imputed(t1) = the line from 1000 at t0
\* to 1200 at t2 taken at t1, imputed(t2) = 1200.
C2_ScenarioInterpolated ==
    \A pf \in Produced : \A t0, t1, t2 \in Times :
        Scenario(pf[1], pf[2], t0, t1, t2) =>
            /\ RowAt(pf[2], t0).imputed_pension_value = Num(1000)
            /\ RowAt(pf[2], t1).imputed_pension_value =
                  Round(FAdd(Num(1000), FMul(Num(200), Fin(t1 - t0, t2 - t0))), 2)
            /\ RowAt(pf[2], t2).imputed_pension_value = Num(1200)

\* C2 amended: imputed(t0) = 1000, imputed(t1) = the cash invested at t1
\* (t1 lies before the first valuation, so the boundary fill applies and
\* nothing is interpolated), imputed(t2) = 1200.
C2_ScenarioBoundaryFill ==
    \A pf \in Produced : \A t0, t1, t2 \in Times :
        Scenario(pf[1], pf[2], t0, t1, t2) =>
            /\ RowAt(pf[2], t0).imputed_pension_value = Num(1000)
            /\ RowAt(pf[2], t1).imputed_pension_value = RowAt(pf[2], t1).cash_invested
            /\ RowAt(pf[2], t2).imputed_pension_value = Num(1200)

C2_Witness ==
    \E pf \in Produced : \E t0, t1, t2 \in Times :
        Scenario(pf[1], pf[2], t0, t1, t2)

\* C3: in every row of a reconciled series, cash_invested is the sum of the
\* account's contributions made up to the row's timestamp.
C3_CashInvestedIsRunningSum ==
    \A pf \in Produced : \A i \in 1..Len(pf[2]) :
        pf[2][i].cash_invested = Round(Num(CashUpTo(pf[1], pf[2][i].timestamp)), 2)

\* C4: in every row of a reconciled series the two imputed gain/loss columns
\* are finite, the absolute one is imputed value - cash invested and the
\* percentage is 100 x absolute / cash invested (both up to the rounding of
\* the columns to 2 decimals), also where the cash invested is 0.
C4_ImputedGainLossDefined ==
    \A pf \in Produced : \A i \in 1..Len(pf[2]) :
        LET row == pf[2][i]
        IN  /\ IsFinite(row.imputed_gain_loss_absolute)
            /\ IsFinite(row.imputed_gain_loss_percentage)
            /\ Near(row.imputed_gain_loss_absolute,
                    FSub(row.imputed_pension_value, row.cash_invested), Fin(1, 100))
            /\ Near(row.imputed_gain_loss_percentage,
                    Percentage(row.imputed_gain_loss_absolute, row.cash_invested),
                    Fin(2, 100))

\* C5: in every row of a reconciled series, gain_loss_absolute is null
\* exactly when the account has no valuation at the row's timestamp, and
\* otherwise it is observed value - cash invested, the observed value being
\* one of the valuations at that timestamp.
C5_GainLossNullIffNoValuation ==
    \A pf \in Produced : \A i \in 1..Len(pf[2]) :
        LET row == pf[2][i]
            observed == {Num(Valuations(pf[1])[j].value) :
                            j \in {h \in 1..Len(Valuations(pf[1])) :
                                     Valuations(pf[1])[h].timestamp = row.timestamp}}
        IN  /\ IsNull(row.gain_loss_absolute) <=> observed = {}
            /\ observed # {} =>
                  /\ row.pension_value \in observed
                  /\ row.gain_loss_absolute = FSub(row.pension_value, row.cash_invested)

\* a series with a row that carries a valuation and a row that carries none
C5_Witness ==
    \E pf \in Produced : \E i, j \in 1..Len(pf[2]) :
        /\ IsNull(pf[2][i].gain_loss_absolute)
        /\ ~IsNull(pf[2][j].gain_loss_absolute)
        /\ pf[2][j].gain_loss_absolute # Zero

HasBothStreams(platform) ==
    Contributions(platform) # <<>> /\ Valuations(platform) # <<>>

\* C6: a platform with an empty contribution or valuation stream gets no
\* entry, and every platform with both streams gets its (non-empty) series:
\* in the dict being filled for the platforms the loop has passed, and in
\* every returned dict.
C6_EmptyStreamSkipped ==
    /\ \A i \in 1..Len(pension_platforms) :
          (call \in 1..2 /\ i < platform_i) =>
             (pension_platforms[i] \in DOMAIN all_performance_data
                <=> HasBothStreams(pension_platforms[i]))
    /\ \A k \in 1..Len(returned) :
          DOMAIN returned[k] = {p \in Platforms : HasBothStreams(p)}
    /\ \A pf \in Produced : pf[2] # <<>>

\* a returned dict that holds one platform and skipped the other
C6_Witness ==
    \E k \in 1..Len(returned) : \E p, q \in Platforms :
        /\ p \in DOMAIN returned[k]
        /\ q \notin DOMAIN returned[k]
        /\ Contributions(q) # <<>>

----------------------------------------------------------------------------
(* analytics_calculator: inputs *)

\* The table is read from portfolio_snapshots.csv: date is a string until
\* pd.to_datetime parses it, total_portfolio_value is a non-null number.
\* create_portfolio_snapshots writes one row per date, oldest first, and
\* only rows whose value is positive; the two functions accept any table,
\* so the values include 0 and the rows may also be stored newest first.
Values == {0, 1, 2}
MaxShort == 4
MaxPattern == 2

VolatilityWindow == 30
AnnualWindow == 252
TradingDays == 252
risk_free_rate == Fin(2, 100)

Cycle(pattern, n) == [i \in 1..n |-> pattern[((i - 1) % Len(pattern)) + 1]]
Flat(pattern, n) == [i \in 1..n |-> pattern[IF i < Len(pattern) THEN i ELSE Len(pattern)]]

Patterns == UNION {[1..n -> Values] : n \in 1..MaxPattern}
LongLengths == {VolatilityWindow, VolatilityWindow + 1, AnnualWindow + 1}

\* value series, oldest first: every short one, and long ones that fill the
\* rolling windows
ScenarioSeries == {<<100, 110, 99, 120>>}

ValueSeries ==
    (UNION {[1..n -> Values] : n \in 1..MaxShort})
    \cup ScenarioSeries
    \cup {Cycle(p, n) : p \in Patterns, n \in LongLengths}
    \cup {Flat(p, n) : p \in Patterns, n \in LongLengths}

StrDate(day) == [kind |-> "str", day |-> day]

SnapshotTable(series, order) ==
    LET n == Len(series)
    IN  [i \in 1..n |->
            LET day == IF order = "oldest first" THEN i ELSE n + 1 - i
            IN  [date |-> StrDate(day), total_portfolio_value |-> Num(series[day])]]

----------------------------------------------------------------------------
(* analytics_calculator: pandas on columns *)

\* a column given by a formula, as the array pandas stores
RECURSIVE Tab(_, _, _)
Tab(f, lo, hi) ==
    IF lo > hi THEN <<>>
    ELSE IF lo = hi THEN <<f[lo]>>
    ELSE Tab(f, lo, (lo + hi) \div 2) \o Tab(f, (lo + hi) \div 2 + 1, hi)

Seqn(f, n) == Tab(f, 1, n)

\* pd.to_datetime of one cell
ToDatetimeCell(date) == [kind |-> "datetime", day |-> date.day]

\* df["date"] = pd.to_datetime(df["date"]), on the frame object itself
ToDatetime(df) ==
    [i \in 1..Len(df) |-> [df[i] EXCEPT !.date = ToDatetimeCell(df[i].date)]]

DateLt(a, b) == a.date.day < b.date.day

\* df.sort_values("date") of a frame with one row per date: a new frame,
\* held by columns
SortByDate(df) ==
    LET sorted == SortSeq(df, DateLt)
    IN  [date |-> Seqn([i \in 1..Len(df) |-> sorted[i].date], Len(df)),
         total_portfolio_value |->
            Seqn([i \in 1..Len(df) |-> sorted[i].total_portfolio_value], Len(df))]

\* one step of a running aggregate that skips nulls
Combine(kind, acc, x) ==
    CASE kind = "count" -> IF IsNull(x) THEN acc ELSE acc + 1
      [] IsNull(x) -> acc
      [] kind = "sum" -> FAdd(acc, x)
      [] kind = "sumsq" -> FAdd(acc, FMul(x, x))
      [] kind = "prod" -> FMul(acc, x)
      [] kind = "max" -> IF IsNull(acc) \/ FLt(acc, x) THEN x ELSE acc
      [] kind = "min" -> IF IsNull(acc) \/ FLt(x, acc) THEN x ELSE acc

\* the running aggregate of col[lo..hi], started from base
RECURSIVE Scan(_, _, _, _, _)
RECURSIVE ScanRight(_, _, _, _, _)
Scan(kind, col, lo, hi, base) ==
    IF lo > hi THEN <<>>
    ELSE IF lo = hi THEN <<Combine(kind, base, col[lo])>>
    ELSE ScanRight(kind, col, (lo + hi) \div 2, hi,
                   Scan(kind, col, lo, (lo + hi) \div 2, base))

ScanRight(kind, col, mid, hi, left) ==
    left \o Scan(kind, col, mid + 1, hi, left[Len(left)])

\* the ratio to the row before, without the - 1
PctChangeRatio(col) ==
    Seqn([i \in 1..Len(col) |-> IF i = 1 THEN NaN ELSE FDiv(col[i], col[i - 1])],
         Len(col))

\* Series.pct_change(): x[i] / x[i-1] - 1, null in the first row
\* (its fill_method pads nulls first; the value column has none)
PctChange(col) ==
    Seqn([i \in 1..Len(col) |->
            IF i = 1 THEN NaN ELSE FSub(FDiv(col[i], col[i - 1]), Num(1))],
         Len(col))

\* Series.replace([np.inf, -np.inf], value)
ReplaceInf(col, value) ==
    Seqn([i \in 1..Len(col) |-> IF IsInf(col[i]) THEN value ELSE col[i]], Len(col))

\* Series.fillna(0)
FillZero(col) ==
    Seqn([i \in 1..Len(col) |-> IF IsNull(col[i]) THEN Zero ELSE col[i]], Len(col))

\* column (+|-|*|/) scalar and column / column, cell by cell
AddScalar(col, c) == Seqn([i \in 1..Len(col) |-> FAdd(col[i], c)], Len(col))
MulScalar(col, c) == Seqn([i \in 1..Len(col) |-> FMul(col[i], c)], Len(col))
DivColumns(a, b) == Seqn([i \in 1..Len(a) |-> FDiv(a[i], b[i])], Len(a))
SubColumns(a, b) == Seqn([i \in 1..Len(a) |-> FSub(a[i], b[i])], Len(a))
AbsColumn(a) == Seqn([i \in 1..Len(a) |-> FAbs(a[i])], Len(a))

\* Series.cumprod(): nulls are skipped and stay null
MaskNulls(col, acc) ==
    Seqn([i \in 1..Len(col) |-> IF IsNull(col[i]) THEN NaN ELSE acc[i]], Len(col))

CumProd(col) == MaskNulls(col, Scan("prod", col, 1, Len(col), Num(1)))

\* Series.expanding().max() / .min(): over the non-null cells so far
ExpandingMax(col) == Scan("max", col, 1, Len(col), NaN)
ExpandingMin(col) == Scan("min", col, 1, Len(col), NaN)

\* what Series.rolling keeps of a column: per row, how many cells so far
\* are not null and their sum; for the variance also the sum of their squares
RollingState(col) ==
    [nobs |-> Scan("count", col, 1, Len(col), 0),
     sum |-> Scan("sum", col, 1, Len(col), Zero)]

RollingSquares(col) == Scan("sumsq", col, 1, Len(col), Zero)

WindowNobs(st, i, w) == st.nobs[i] - (IF i > w THEN st.nobs[i - w] ELSE 0)
WindowSum(running, i, w) == FSub(running[i], IF i > w THEN running[i - w] ELSE Zero)

\* rolling(window=w): min_periods is w, so a window gives a value only when
\* it holds w cells that are not null
FullWindow(st, i, w) == i >= w /\ WindowNobs(st, i, w) = w

RollingMeanOf(st, w, n) ==
    Seqn([i \in 1..n |->
            IF FullWindow(st, i, w)
            THEN FDiv(WindowSum(st.sum, i, w), Num(w))
            ELSE NaN], n)

\* .rolling(window=w).mean()
RollingMean(col, w) == RollingMeanOf(RollingState(col), w, Len(col))

\* the sample variance (ddof = 1) of a full window
WindowVar(st, sumsq, i, w) ==
    FDiv(FSub(WindowSum(sumsq, i, w),
              FDiv(FMul(WindowSum(st.sum, i, w), WindowSum(st.sum, i, w)), Num(w))),
         Num(w - 1))

RollingStdOf(st, sumsq, w, n) ==
    Seqn([i \in 1..n |->
            IF FullWindow(st, i, w) THEN Sqrt(WindowVar(st, sumsq, i, w)) ELSE NaN], n)

\* .rolling(window=w).std()
RollingStd(col, w) == RollingStdOf(RollingState(col), RollingSquares(col), w, Len(col))

\* the cells of the window that ends in row i
Window(col, i, w) == Seqn([j \in 1..w |-> col[i - w + j]], w)

\* the mean of a sequence of cells, null when there is none
Mean(x) ==
    IF Len(x) = 0 THEN NaN
    ELSE FDiv(Scan("sum", x, 1, Len(x), Zero)[Len(x)], Num(Len(x)))

\* the qn/qd quantile of an ascending sequence, with linear interpolation
QuantileOfSorted(sorted, qn, qd) ==
    LET below == ((Len(sorted) - 1) * qn) \div qd
        fraction == Fin(((Len(sorted) - 1) * qn) % qd, qd)
    IN  IF fraction = Zero THEN sorted[below + 1]
        ELSE FAdd(sorted[below + 1],
                  FMul(fraction, FSub(sorted[below + 2], sorted[below + 1])))

\* np.percentile(x, 100 * qn / qd) and rolling quantile of one window
Quantile(x, qn, qd) == QuantileOfSorted(SortSeq(x, FLt), qn, qd)

RollingQuantileOf(st, col, w, qn, qd) ==
    Seqn([i \in 1..Len(col) |->
            IF FullWindow(st, i, w) THEN Quantile(Window(col, i, w), qn, qd) ELSE NaN],
         Len(col))

\* .rolling(window=w).quantile(qn/qd)
RollingQuantile(col, w, qn, qd) == RollingQuantileOf(RollingState(col), col, w, qn, qd)

----------------------------------------------------------------------------
(* calculate_performance_metrics *)

\* total_portfolio_value.pct_change().replace([np.inf, -np.inf], 0)
DailyReturn(total_portfolio_value) == ReplaceInf(PctChange(total_portfolio_value), Zero)

\* (1 + daily_return).cumprod() - 1
CumulativeReturn(daily_return) ==
    AddScalar(CumProd(AddScalar(daily_return, Num(1))), Num(-1))

\* daily_return.rolling(window=30).std() * np.sqrt(252)
Volatility(daily_return, window) ==
    MulScalar(RollingStd(daily_return, window), Sqrt(Num(TradingDays)))

\* daily_return - risk_free_rate / 252
ExcessReturn(daily_return) ==
    AddScalar(daily_return, FNeg(FDiv(risk_free_rate, Num(TradingDays))))

\* (excess_return.rolling(252).mean() * 252) / (daily_return.rolling(252).std() * sqrt(252))
SharpeRatio(excess_return, daily_return) ==
    DivColumns(MulScalar(RollingMean(excess_return, AnnualWindow), Num(TradingDays)),
               Volatility(daily_return, AnnualWindow))

Peak(total_portfolio_value) == ExpandingMax(total_portfolio_value)

\* the distance below the peak taken as a positive number
DrawdownBelowPeak(total_portfolio_value, peak) ==
    DivColumns(SubColumns(peak, total_portfolio_value), peak)

\* (total_portfolio_value - peak) / peak
Drawdown(total_portfolio_value, peak) ==
    DivColumns(SubColumns(total_portfolio_value, peak), peak)

MaxDrawdown(drawdown) == ExpandingMin(drawdown)

Beta(n) == Seqn([i \in 1..n |-> Num(1)], n)

\* the frame local to calculate_performance_metrics, column after column
PerformanceWithDrawdown(f, peak) ==
    LET drawdown == Drawdown(f.total_portfolio_value, peak)
    IN  [date |-> f.date,
         total_portfolio_value |-> f.total_portfolio_value,
         daily_return |-> f.daily_return,
         cumulative_return |-> CumulativeReturn(f.daily_return),
         volatility_30d |-> Volatility(f.daily_return, VolatilityWindow),
         excess_return |-> f.excess_return,
         sharpe_ratio |-> SharpeRatio(f.excess_return, f.daily_return),
         peak |-> peak,
         drawdown |-> drawdown,
         max_drawdown |-> MaxDrawdown(drawdown),
         beta |-> Beta(Len(f.date)),
         alpha |-> ExcessReturn(f.daily_return)]

PerformanceWithReturns(f, daily_return) ==
    PerformanceWithDrawdown(
        [date |-> f.date,
         total_portfolio_value |-> f.total_portfolio_value,
         daily_return |-> daily_return,
         excess_return |-> ExcessReturn(daily_return)],
        Peak(f.total_portfolio_value))

PerformanceFrame(sorted) ==
    PerformanceWithReturns(sorted, DailyReturn(sorted.total_portfolio_value))

\* the replacement without the fillna
ReplaceInfOnly(col) == ReplaceInf(col, NaN)

\* DataFrame.replace([np.inf, -np.inf], np.nan).fillna(0) of a numeric column
ReplaceInfFillna(col) == FillZero(ReplaceInf(col, NaN))

\* the selected columns, made finite
PerformanceTable(f) ==
    [date |-> f.date,
     total_portfolio_value |-> ReplaceInfFillna(f.total_portfolio_value),
     daily_return |-> ReplaceInfFillna(f.daily_return),
     cumulative_return |-> ReplaceInfFillna(f.cumulative_return),
     volatility_30d |-> ReplaceInfFillna(f.volatility_30d),
     sharpe_ratio |-> ReplaceInfFillna(f.sharpe_ratio),
     max_drawdown |-> ReplaceInfFillna(f.max_drawdown),
     beta |-> ReplaceInfFillna(f.beta),
     alpha |-> ReplaceInfFillna(f.alpha)]

----------------------------------------------------------------------------
(* calculate_risk_metrics *)

CvarMinSamples == 30

CvarBelow(returns, var_95) == Mean(SelectSeq(returns, LAMBDA x : FLe(x, var_95)))

\* calculate_cvar: the mean of the returns at or below their 5th percentile
calculate_cvar(returns) ==
    IF Len(returns) < CvarMinSamples THEN NaN
    ELSE CvarBelow(returns, Quantile(returns, 5, 100))

FMin(a, b) == IF IsNull(a) \/ IsNull(b) THEN NaN ELSE IF FLt(b, a) THEN b ELSE a

DownsideAround(x, mean) ==
    Sqrt(Mean(Seqn([j \in 1..Len(x) |->
                      FMul(FMin(FSub(x[j], mean), Zero), FMin(FSub(x[j], mean), Zero))],
                   Len(x))))

\* lambda x: np.sqrt(np.mean(np.minimum(x - x.mean(), 0) ** 2))
DownsideDeviation(x) == DownsideAround(x, Mean(x))

\* the functions handed to rolling().apply(), by name
Apply(func, x) ==
    CASE func = "calculate_cvar" -> calculate_cvar(x)
      [] func = "downside_deviation" -> DownsideDeviation(x)

RollingApplyOf(st, col, w, func) ==
    Seqn([i \in 1..Len(col) |->
            IF FullWindow(st, i, w) THEN Apply(func, Window(col, i, w)) ELSE NaN],
         Len(col))

\* .rolling(window=w).apply(func): func sees the full windows only
RollingApply(col, w, func) == RollingApplyOf(RollingState(col), col, w, func)

\* daily_return.rolling(window=252).mean() * 252
AnnualReturn(daily_return) ==
    MulScalar(RollingMean(daily_return, AnnualWindow), Num(TradingDays))

\* (annual_return - risk_free_rate) / (downside_deviation * np.sqrt(252))
SortinoRatio(daily_return, downside_deviation) ==
    DivColumns(AddScalar(AnnualReturn(daily_return), FNeg(risk_free_rate)),
               MulScalar(downside_deviation, Sqrt(Num(TradingDays))))

\* annual_return / abs(max_drawdown)
CalmarRatio(annual_return, max_drawdown) == DivColumns(annual_return, AbsColumn(max_drawdown))

\* the mean excess return of a day over the tracking error of a year
InformationRatioPerDay(excess_return, tracking_error) ==
    DivColumns(RollingMean(excess_return, AnnualWindow), tracking_error)

\* excess_return.rolling(window=252).mean() * 252 / tracking_error
InformationRatio(excess_return, tracking_error) ==
    DivColumns(MulScalar(RollingMean(excess_return, AnnualWindow), Num(TradingDays)),
               tracking_error)

\* the frame local to calculate_risk_metrics, column after column
RiskWithRatios(f) ==
    [date |-> f.date,
     total_portfolio_value |-> f.total_portfolio_value,
     daily_return |-> f.daily_return,
     volatility_30d |-> f.volatility_30d,
     peak |-> f.peak,
     drawdown |-> f.drawdown,
     max_drawdown |-> f.max_drawdown,
     excess_return |-> f.excess_return,
     var_95_30d |-> f.var_95_30d,
     cvar_95_30d |-> f.cvar_95_30d,
     downside_deviation |-> f.downside_deviation,
     sortino_ratio |-> SortinoRatio(f.daily_return, f.downside_deviation),
     annual_return |-> f.annual_return,
     calmar_ratio |-> CalmarRatio(f.annual_return, f.max_drawdown),
     tracking_error |-> f.tracking_error,
     information_ratio |-> InformationRatio(f.excess_return, f.tracking_error)]

RiskWithDrawdown(f, drawdown) ==
    RiskWithRatios(
        [date |-> f.date,
         total_portfolio_value |-> f.total_portfolio_value,
         daily_return |-> f.daily_return,
         volatility_30d |-> Volatility(f.daily_return, VolatilityWindow),
         peak |-> f.peak,
         drawdown |-> drawdown,
         max_drawdown |-> MaxDrawdown(drawdown),
         excess_return |-> ExcessReturn(f.daily_return),
         var_95_30d |-> RollingQuantile(f.daily_return, VolatilityWindow, 5, 100),
         cvar_95_30d |-> RollingApply(f.daily_return, VolatilityWindow, "calculate_cvar"),
         downside_deviation |->
            RollingApply(f.daily_return, VolatilityWindow, "downside_deviation"),
         annual_return |-> AnnualReturn(f.daily_return),
         tracking_error |-> Volatility(f.daily_return, AnnualWindow)])

RiskWithReturns(f, daily_return, peak) ==
    RiskWithDrawdown(
        [date |-> f.date,
         total_portfolio_value |-> f.total_portfolio_value,
         daily_return |-> daily_return,
         peak |-> peak],
        Drawdown(f.total_portfolio_value, peak))

RiskFrame(sorted) ==
    RiskWithReturns(sorted, DailyReturn(sorted.total_portfolio_value),
                    Peak(sorted.total_portfolio_value))

\* the selected columns as they are, nulls and infinities included
RiskTableUnfilled(f) ==
    [date |-> f.date,
     var_95_30d |-> f.var_95_30d,
     cvar_95_30d |-> f.cvar_95_30d,
     downside_deviation |-> f.downside_deviation,
     sortino_ratio |-> f.sortino_ratio,
     calmar_ratio |-> f.calmar_ratio,
     information_ratio |-> f.information_ratio,
     volatility_30d |-> f.volatility_30d,
     max_drawdown |-> f.max_drawdown]

\* the selected columns, made finite
RiskTable(f) ==
    [date |-> f.date,
     var_95_30d |-> ReplaceInfFillna(f.var_95_30d),
     cvar_95_30d |-> ReplaceInfFillna(f.cvar_95_30d),
     downside_deviation |-> ReplaceInfFillna(f.downside_deviation),
     sortino_ratio |-> ReplaceInfFillna(f.sortino_ratio),
     calmar_ratio |-> ReplaceInfFillna(f.calmar_ratio),
     information_ratio |-> ReplaceInfFillna(f.information_ratio),
     volatility_30d |-> ReplaceInfFillna(f.volatility_30d),
     max_drawdown |-> ReplaceInfFillna(f.max_drawdown)]

----------------------------------------------------------------------------
(* analytics_calculator.main: the two calls on processed_data["portfolio_snapshots"] *)

InitAnalytics ==
    /\ \E series \in ValueSeries, order \in {"oldest first", "newest first"} :
          portfolio_snapshots = SnapshotTable(series, order)
    /\ analytics_pc = "loaded"
    /\ performance_local = NoData
    /\ performance_metrics = NoData
    /\ risk_local = NoData
    /\ risk_metrics = NoData
    /\ OnlyAnalytics

\* performance_metrics = calculate_performance_metrics(portfolio_snapshots, pnl_tracking)
CalculatePerformanceMetrics ==
    /\ analytics_pc = "loaded"
    /\ portfolio_snapshots' = ToDatetime(portfolio_snapshots)
    /\ performance_local' = PerformanceFrame(SortByDate(portfolio_snapshots'))
    /\ performance_metrics' = PerformanceTable(performance_local')
    /\ analytics_pc' = "performance"
    /\ UNCHANGED <<risk_local, risk_metrics, outside_analytics>>

\* risk_metrics = calculate_risk_metrics(portfolio_snapshots, pnl_tracking)
CalculateRiskMetrics ==
    /\ analytics_pc = "performance"
    /\ portfolio_snapshots' = ToDatetime(portfolio_snapshots)
    /\ risk_local' = RiskFrame(SortByDate(portfolio_snapshots'))
    /\ risk_metrics' = RiskTable(risk_local')
    /\ analytics_pc' = "risk"
    /\ UNCHANGED <<performance_local, performance_metrics, outside_analytics>>

NextAnalytics == CalculatePerformanceMetrics \/ CalculateRiskMetrics

AnalyticsSpec == InitAnalytics /\ [][NextAnalytics]_vars

----------------------------------------------------------------------------
(* analytics_calculator: properties *)

PerformanceDone == analytics_pc \in {"performance", "risk"}
RiskDone == analytics_pc = "risk"

Rows(table) == 1..Len(table.date)

\* the value series, oldest first, has a zero somewhere
HasZeroValue(f) == \E i \in Rows(f) : f.total_portfolio_value[i] = Zero

\* cum_t = (1 + r_t) * (1 + cum_{t-1}) - 1
Compound(r, cum_before) ==
    FSub(FMul(FAdd(Num(1), r), FAdd(Num(1), cum_before)), Num(1))

\* C8: in performance_metrics, compounding the reported daily_return column
\* reproduces the reported cumulative_return column at every record:
\* cum_0 = r_0 and cum_t = (1 + r_t)(1 + cum_{t-1}) - 1 for every later
\* record, for every value series, series with zero values included.
C8_CompoundingReproducesCumulative ==
    PerformanceDone =>
        /\ performance_metrics.cumulative_return[1] = performance_metrics.daily_return[1]
        /\ \A t \in Rows(performance_metrics) \ {1} :
              performance_metrics.cumulative_return[t] =
                  Compound(performance_metrics.daily_return[t],
                           performance_metrics.cumulative_return[t - 1])

DrawdownNotPositive(f) == \A i \in Rows(f) : FLe(f.drawdown[i], Zero)

DrawdownNotPositiveUnderPeak(f) ==
    \A i \in Rows(f) :
        IF FLt(Zero, f.peak[i]) THEN FLe(f.drawdown[i], Zero) ELSE IsNull(f.drawdown[i])

NonIncreasing(col) == \A i \in 2..Len(col) : FLe(col[i], col[i - 1])

\* C9 as stated: for every series of non-negative values the drawdown is <= 0
\* at each timestamp and the reported max_drawdown never increases from one
\* record to the next, in performance_metrics and in risk_metrics.
C9_DrawdownNeverPositive ==
    /\ PerformanceDone =>
          /\ DrawdownNotPositive(performance_local)
          /\ NonIncreasing(performance_metrics.max_drawdown)
    /\ RiskDone =>
          /\ DrawdownNotPositive(risk_local)
          /\ NonIncreasing(risk_metrics.max_drawdown)

\* C9, amended: the drawdown is <= 0 at each timestamp whose running peak is
\* positive and is undefined (null) while the running peak is still 0; the
\* reported max_drawdown never increases from one record to the next, in
\* performance_metrics and in risk_metrics.
C9_DrawdownNeverPositiveUnderPeak ==
    /\ PerformanceDone =>
          /\ DrawdownNotPositiveUnderPeak(performance_local)
          /\ NonIncreasing(performance_metrics.max_drawdown)
    /\ RiskDone =>
          /\ DrawdownNotPositiveUnderPeak(risk_local)
          /\ NonIncreasing(risk_metrics.max_drawdown)

\* both tables exist; the series starts at 0 (no drawdown defined there),
\* later falls below its peak, and max_drawdown decreases at some record
C9_Witness ==
    /\ RiskDone
    /\ IsNull(risk_local.drawdown[1])
    /\ IsNull(performance_local.drawdown[1])
    /\ \E i \in 2..Len(risk_metrics.date) :
          /\ FLt(risk_local.drawdown[i], Zero)
          /\ FLt(risk_metrics.max_drawdown[i], risk_metrics.max_drawdown[i - 1])
          /\ FLt(performance_metrics.max_drawdown[i], performance_metrics.max_drawdown[i - 1])

PerformanceNumeric ==
    {"total_portfolio_value", "daily_return", "cumulative_return", "volatility_30d",
     "sharpe_ratio", "max_drawdown", "beta", "alpha"}

RiskNumeric ==
    {"var_95_30d", "cvar_95_30d", "downside_deviation", "sortino_ratio",
     "calmar_ratio", "information_ratio", "volatility_30d", "max_drawdown"}

AllFinite(table, columns) ==
    \A c \in columns : \A i \in Rows(table) : IsFinite(table[c][i])

\* the rows where the denominator column is zero hold 0 in the ratio column
ZeroWhereZero(denominator, ratio) ==
    \A i \in 1..Len(ratio) : denominator[i] = Zero => ratio[i] = Zero

\* the denominator of the return of row i: the value of the row before
ValueBefore(total_portfolio_value) ==
    [i \in 1..Len(total_portfolio_value) |->
        IF i = 1 THEN NaN ELSE total_portfolio_value[i - 1]]

PerformanceZeroDenominators(f, table, std_annual) ==
    /\ ZeroWhereZero(std_annual, table.sharpe_ratio)
    /\ ZeroWhereZero(ValueBefore(f.total_portfolio_value), table.daily_return)
    /\ ZeroWhereZero(f.peak, table.max_drawdown)

RiskZeroDenominators(f, table) ==
    /\ ZeroWhereZero(f.tracking_error, table.information_ratio)
    /\ ZeroWhereZero(f.downside_deviation, table.sortino_ratio)
    /\ ZeroWhereZero(f.max_drawdown, table.calmar_ratio)
    /\ ZeroWhereZero(f.peak, table.max_drawdown)

\* C10: every numeric cell of performance_metrics and of risk_metrics is
\* finite for every value series, and a ratio whose denominator is zero
\* (Sharpe and information ratio on a zero return deviation, Sortino on a
\* zero downside deviation, Calmar on a zero max drawdown, a return or a
\* drawdown on a zero base) is emitted as 0.
C10_EveryCellFinite ==
    /\ PerformanceDone =>
          /\ AllFinite(performance_metrics, PerformanceNumeric)
          /\ PerformanceZeroDenominators(
                performance_local, performance_metrics,
                Volatility(performance_local.daily_return, AnnualWindow))
    /\ RiskDone =>
          /\ AllFinite(risk_metrics, RiskNumeric)
          /\ RiskZeroDenominators(risk_local, risk_metrics)

\* both tables exist, and each of the zero denominators occurs in a row
\* where the numerator is defined
C10_Witness ==
    /\ RiskDone
    /\ \E i \in Rows(risk_local) :
          /\ risk_local.tracking_error[i] = Zero
          /\ risk_local.downside_deviation[i] = Zero
          /\ risk_local.max_drawdown[i] = Zero
          /\ IsFinite(risk_local.annual_return[i])
          /\ IsInf(risk_local.sortino_ratio[i])
          /\ IsInf(risk_local.information_ratio[i])
          /\ IsInf(performance_local.sharpe_ratio[i])
          /\ IsNull(risk_local.calmar_ratio[i])
    /\ \E i \in Rows(risk_local) \ {1} :
          /\ risk_local.total_portfolio_value[i - 1] = Zero
          /\ risk_local.total_portfolio_value[i] # Zero
    /\ risk_local.peak[1] = Zero

Chronological(date) == \A i \in 2..Len(date) : date[i - 1].day < date[i].day

ScenarioValues == <<Num(100), Num(110), Num(99), Num(120)>>

\* C11: performance_metrics is in chronological order, the first record's
\* daily_return is 0, every later record's daily_return is
\* value_t / value_{t-1} - 1, and 0 where value_{t-1} is 0; for the values
\* [100, 110, 99, 120] the daily returns are [0, 1/10, -1/10, 120/99 - 1] and
\* the drawdown at the third record is -1/10.
C11_DailyReturns ==
    PerformanceDone =>
        /\ Chronological(performance_metrics.date)
        /\ performance_metrics.daily_return[1] = Zero
        /\ \A t \in Rows(performance_metrics) \ {1} :
              performance_metrics.daily_return[t] =
                  IF performance_metrics.total_portfolio_value[t - 1] = Zero
                  THEN Zero
                  ELSE FSub(FDiv(performance_metrics.total_portfolio_value[t],
                                 performance_metrics.total_portfolio_value[t - 1]),
                            Num(1))
        /\ performance_metrics.total_portfolio_value = ScenarioValues =>
              /\ performance_metrics.daily_return =
                    <<Zero, Fin(1, 10), Fin(-1, 10), FSub(Fin(120, 99), Num(1))>>
              /\ performance_local.drawdown[3] = Fin(-1, 10)

\* the scenario's table, stored newest first, has gone through
\* calculate_performance_metrics
C11_Witness ==
    /\ PerformanceDone
    /\ performance_metrics.total_portfolio_value = ScenarioValues
    /\ portfolio_snapshots[1].total_portfolio_value = Num(120)

----------------------------------------------------------------------------
(* data_transformer: create_portfolio_snapshots and create_pnl_tracking *)

\* The extractor writes one position per asset, with quantity >= 0 and an
\* average_purchase_price that defaults to 0, and one candle per asset and
\* day, dated by its UNIX start time, in the order the exchange returns them.
TransformAssets == <<"BTC", "ETH">>
MaxDay == 2
Quantities == {0, 1}
AverageCosts == {0, 20000}
ClosePrices == {25000, 30000}
NoCandle == 0

UnixDate(day) == [kind |-> "unix", day |-> day]

PositionRows(asset) ==
    {[asset_symbol |-> asset, quantity |-> Num(q), average_purchase_price |-> Num(c)] :
        q \in Quantities, c \in AverageCosts}

PositionLists ==
    {<<>>}
    \cup {<<r>> : r \in PositionRows(TransformAssets[1]) \cup PositionRows(TransformAssets[2])}
    \cup {<<r1, r2>> : r1 \in PositionRows(TransformAssets[1]),
                       r2 \in PositionRows(TransformAssets[2])}

\* the candle list of a choice of closes, asset after asset
CandleList(closes, order) ==
    LET CandleDay(k) ==
            IF order = "oldest first" THEN ((k - 1) % MaxDay) + 1
            ELSE MaxDay - ((k - 1) % MaxDay)
        Candle(k) ==
            [asset_symbol |-> TransformAssets[((k - 1) \div MaxDay) + 1],
             date |-> UnixDate(CandleDay(k)),
             close_price |->
                closes[<<TransformAssets[((k - 1) \div MaxDay) + 1], CandleDay(k)>>]]
        present == SelectSeq([k \in 1..(Len(TransformAssets) * MaxDay) |-> Candle(k)],
                             LAMBDA c : c.close_price # NoCandle)
    IN  [k \in 1..Len(present) |-> [present[k] EXCEPT !.close_price = Num(@)]]

PriceHistories ==
    {CandleList(closes, order) :
        closes \in [{TransformAssets[1], TransformAssets[2]} \X (1..MaxDay)
                        -> ClosePrices \cup {NoCandle}],
        order \in {"oldest first", "newest first"}}

\* pd.to_datetime(prices_df["date"].astype(int), unit="s") of one cell
FromUnix(date) == [kind |-> "datetime", day |-> date.day]

\* date.isoformat()
Isoformat(date) == [kind |-> "iso", day |-> date.day]

\* sorted(prices_df["date"].unique())
unique_dates(raw) == Ascending({FromUnix(raw[i].date).day : i \in 1..Len(raw)})

\* the first price of the asset on any day
ClosePriceOnAnyDay(raw, asset_symbol, day) ==
    LET asset_price == SelectSeq(raw, LAMBDA r : r.asset_symbol = asset_symbol)
    IN  IF asset_price = <<>> THEN NaN ELSE asset_price[1].close_price

\* date_prices[date_prices["asset_symbol"] == asset]["close_price"].iloc[0],
\* null when the selection is empty
ClosePriceOn(raw, asset_symbol, day) ==
    LET asset_price ==
            SelectSeq(raw, LAMBDA r : FromUnix(r.date).day = day
                                      /\ r.asset_symbol = asset_symbol)
    IN  IF asset_price = <<>> THEN NaN ELSE asset_price[1].close_price

\* what one position adds to a running total of the loop over the positions
PositionTerm(kind, position, price) ==
    CASE kind = "portfolio_value" -> FMul(position.quantity, price)
      [] kind = "total_cost_basis" ->
            FMul(position.quantity, position.average_purchase_price)
      [] kind = "total_unrealized_pnl" ->
            FSub(FMul(position.quantity, price),
                 FMul(position.quantity, position.average_purchase_price))

\* the running total after the first i positions: a position whose asset
\* has no price on the day is passed over
RECURSIVE PositionTotal(_, _, _, _, _)
PositionTotal(kind, positions, raw, day, i) ==
    IF i = 0 THEN Zero
    ELSE IF IsNull(ClosePriceOn(raw, positions[i].asset_symbol, day))
    THEN PositionTotal(kind, positions, raw, day, i - 1)
    ELSE FAdd(PositionTotal(kind, positions, raw, day, i - 1),
              PositionTerm(kind, positions[i],
                           ClosePriceOn(raw, positions[i].asset_symbol, day)))

\* len([k for k, v in asset_values.items() if v > 0])
NumAssets(positions, raw, day) ==
    Cardinality({positions[i].asset_symbol : i \in
        {j \in 1..Len(positions) :
            FLt(Zero, FMul(positions[j].quantity,
                           ClosePriceOn(raw, positions[j].asset_symbol, day)))}})

Snapshot(positions, raw, day) ==
    [date |-> [kind |-> "datetime", day |-> day],
     total_portfolio_value |->
        PositionTotal("portfolio_value", positions, raw, day, Len(positions)),
     num_assets |-> NumAssets(positions, raw, day),
     timestamp |-> Isoformat([kind |-> "datetime", day |-> day])]

SnapshotRows(positions, raw, dates) ==
    [i \in 1..Len(dates) |-> Snapshot(positions, raw, dates[i])]

\* every date gets a row, whatever its value
create_portfolio_snapshots_unfiltered(positions, raw) ==
    SnapshotRows(positions, raw, unique_dates(raw))

create_portfolio_snapshots(positions, raw) ==
    IF positions = <<>> \/ raw = <<>> THEN <<>>
    ELSE SelectSeq(SnapshotRows(positions, raw, unique_dates(raw)),
                   LAMBDA snapshot : FLt(Zero, snapshot.total_portfolio_value))

PnlEntry(positions, raw, day) ==
    LET total_cost_basis ==
            PositionTotal("total_cost_basis", positions, raw, day, Len(positions))
        total_unrealized_pnl ==
            PositionTotal("total_unrealized_pnl", positions, raw, day, Len(positions))
    IN  [date |-> [kind |-> "datetime", day |-> day],
         total_cost_basis |-> total_cost_basis,
         total_current_value |-> FAdd(total_cost_basis, total_unrealized_pnl),
         unrealized_pnl |-> total_unrealized_pnl,
         unrealized_pnl_percentage |->
            FMul(FDiv(total_unrealized_pnl, total_cost_basis), Num(100)),
         timestamp |-> Isoformat([kind |-> "datetime", day |-> day])]

PnlRows(positions, raw, dates) ==
    [i \in 1..Len(dates) |-> PnlEntry(positions, raw, dates[i])]

\* every date gets a record, whatever its cost basis
create_pnl_tracking_unfiltered(positions, raw) ==
    PnlRows(positions, raw, unique_dates(raw))

create_pnl_tracking(positions, raw) ==
    IF positions = <<>> \/ raw = <<>> THEN <<>>
    ELSE SelectSeq(PnlRows(positions, raw, unique_dates(raw)),
                   LAMBDA pnl_entry : FLt(Zero, pnl_entry.total_cost_basis))

InitTransform ==
    /\ raw_positions \in PositionLists
    /\ raw_prices \in PriceHistories
    /\ transform_pc = "loaded"
    /\ snapshots_created = <<>>
    /\ pnl_created = <<>>
    /\ OnlyTransform

\* portfolio_snapshots = create_portfolio_snapshots(raw_data["positions"], raw_data["prices"])
CreatePortfolioSnapshots ==
    /\ transform_pc = "loaded"
    /\ snapshots_created' = create_portfolio_snapshots(raw_positions, raw_prices)
    /\ transform_pc' = "snapshots"
    /\ UNCHANGED <<raw_positions, raw_prices, pnl_created, outside_transform>>

\* pnl_tracking = create_pnl_tracking(raw_data["positions"], raw_data["prices"])
CreatePnlTracking ==
    /\ transform_pc = "snapshots"
    /\ pnl_created' = create_pnl_tracking(raw_positions, raw_prices)
    /\ transform_pc' = "pnl"
    /\ UNCHANGED <<raw_positions, raw_prices, snapshots_created, outside_transform>>

NextTransform == CreatePortfolioSnapshots \/ CreatePnlTracking

TransformSpec == InitTransform /\ [][NextTransform]_vars

----------------------------------------------------------------------------
(* data_transformer: properties *)

SnapshotsDone == transform_pc \in {"snapshots", "pnl"}
PnlDone == transform_pc = "pnl"

\* the sum of a sequence of cells
Total(cells) ==
    IF cells = <<>> THEN Zero ELSE Scan("sum", cells, 1, Len(cells), Zero)[Len(cells)]

HistoryDays == {raw_prices[i].date.day : i \in 1..Len(raw_prices)}

\* the candles of a day, as (asset, close) pairs
Closes(day) ==
    {<<raw_prices[i].asset_symbol, raw_prices[i].close_price>> :
        i \in {j \in 1..Len(raw_prices) : raw_prices[j].date.day = day}}

HasPrice(asset_symbol, day) == \E c \in Closes(day) : c[1] = asset_symbol
PriceOf(asset_symbol, day) == (CHOOSE c \in Closes(day) : c[1] = asset_symbol)[2]

\* value(t): quantity x close over the positions, 0 for an asset without a price at t
ValueAt(day) ==
    Total([i \in 1..Len(raw_positions) |->
             IF HasPrice(raw_positions[i].asset_symbol, day)
             THEN FMul(raw_positions[i].quantity,
                       PriceOf(raw_positions[i].asset_symbol, day))
             ELSE Zero])

RowsOn(table, day) == {i \in 1..Len(table) : table[i].date.day = day}

Increasing(table) ==
    \A i \in 2..Len(table) : table[i - 1].date.day < table[i].date.day

\* C12: create_portfolio_snapshots emits exactly one snapshot for each
\* distinct timestamp of the price history whose value(t) is positive and
\* none for any other timestamp, in increasing timestamp order, with
\* total_portfolio_value = value(t), the sum over the positions of quantity
\* x close price at t, an asset without a price at t contributing 0.
C12_OneSnapshotPerValuedTimestamp ==
    SnapshotsDone =>
        /\ \A i \in 1..Len(snapshots_created) :
              /\ snapshots_created[i].date.day \in HistoryDays
              /\ snapshots_created[i].date.kind = "datetime"
              /\ snapshots_created[i].total_portfolio_value =
                    ValueAt(snapshots_created[i].date.day)
        /\ \A day \in HistoryDays :
              Cardinality(RowsOn(snapshots_created, day)) =
                  IF FLt(Zero, ValueAt(day)) THEN 1 ELSE 0
        /\ Increasing(snapshots_created)

\* a history stored newest first with two timestamps, one of them without
\* value, and a snapshot to which a position without a price contributes 0
C12_Witness ==
    /\ SnapshotsDone
    /\ Len(raw_prices) >= 2 /\ raw_prices[1].date.day > raw_prices[2].date.day
    /\ Cardinality(HistoryDays) = 2
    /\ Len(snapshots_created) = 1
    /\ \E i \in 1..Len(raw_positions) :
          ~HasPrice(raw_positions[i].asset_symbol, snapshots_created[1].date.day)

\* Sigma quantity x average cost over all the positions
CostBasisOfAll ==
    Total([i \in 1..Len(raw_positions) |->
             FMul(raw_positions[i].quantity, raw_positions[i].average_purchase_price)])

\* Sigma quantity x average cost over the positions whose asset has a price at t
CostBasisOfPriced(day) ==
    Total([i \in 1..Len(raw_positions) |->
             IF HasPrice(raw_positions[i].asset_symbol, day)
             THEN FMul(raw_positions[i].quantity, raw_positions[i].average_purchase_price)
             ELSE Zero])

PnlScenario ==
    /\ raw_positions = <<[asset_symbol |-> "BTC", quantity |-> Num(1),
                          average_purchase_price |-> Num(20000)]>>
    /\ {<<raw_prices[i].asset_symbol, raw_prices[i].date.day, raw_prices[i].close_price>> :
            i \in 1..Len(raw_prices)}
         = {<<"BTC", 1, Num(25000)>>, <<"BTC", 2, Num(30000)>>}

PnlScenarioRecords ==
    /\ Len(pnl_created) = 2
    /\ pnl_created[1].date.day = 1
    /\ pnl_created[1].unrealized_pnl = Num(5000)
    /\ pnl_created[1].unrealized_pnl_percentage = Num(25)
    /\ pnl_created[2].date.day = 2
    /\ pnl_created[2].unrealized_pnl = Num(10000)
    /\ pnl_created[2].unrealized_pnl_percentage = Num(50)

\* C13 as stated: create_pnl_tracking emits a record at timestamp t iff
\* cost_basis > 0, cost_basis being Sigma quantity x average cost over the
\* positions; its unrealized_pnl is value(t) - cost_basis and its
\* unrealized_pnl_percentage is 100 x unrealized_pnl / cost_basis; the
\* scenario's records are (5000, 25.0) and (10000, 50.0).
C13_PnlOverAllPositions ==
    PnlDone =>
        /\ \A day \in HistoryDays :
              Cardinality(RowsOn(pnl_created, day)) =
                  IF FLt(Zero, CostBasisOfAll) THEN 1 ELSE 0
        /\ \A i \in 1..Len(pnl_created) :
              /\ pnl_created[i].date.day \in HistoryDays
              /\ pnl_created[i].unrealized_pnl =
                    FSub(ValueAt(pnl_created[i].date.day), CostBasisOfAll)
              /\ pnl_created[i].unrealized_pnl_percentage =
                    FDiv(FMul(Num(100), pnl_created[i].unrealized_pnl), CostBasisOfAll)
        /\ PnlScenario => PnlScenarioRecords

\* C13, amended: the cost basis of timestamp t is Sigma quantity x average
\* cost over the positions whose asset has a price at t; a record is emitted
\* at t iff that cost basis is > 0, its unrealized_pnl is value(t) minus that
\* cost basis and its unrealized_pnl_percentage is 100 x unrealized_pnl / that
\* cost basis; the scenario's records are (5000, 25.0) and (10000, 50.0).
C13_PnlOverPricedPositions ==
    PnlDone =>
        /\ \A day \in HistoryDays :
              Cardinality(RowsOn(pnl_created, day)) =
                  IF FLt(Zero, CostBasisOfPriced(day)) THEN 1 ELSE 0
        /\ \A i \in 1..Len(pnl_created) :
              /\ pnl_created[i].date.day \in HistoryDays
              /\ pnl_created[i].total_cost_basis =
                    CostBasisOfPriced(pnl_created[i].date.day)
              /\ pnl_created[i].unrealized_pnl =
                    FSub(ValueAt(pnl_created[i].date.day),
                         CostBasisOfPriced(pnl_created[i].date.day))
              /\ pnl_created[i].unrealized_pnl_percentage =
                    FDiv(FMul(Num(100), pnl_created[i].unrealized_pnl),
                         CostBasisOfPriced(pnl_created[i].date.day))
        /\ PnlScenario => PnlScenarioRecords

\* two positions with a cost, one of them without a price at a timestamp
\* that has a record
C13_Witness ==
    /\ PnlDone
    /\ Len(raw_positions) = 2
    /\ \A i \in 1..2 : FLt(Zero, FMul(raw_positions[i].quantity,
                                      raw_positions[i].average_purchase_price))
    /\ \E k \in 1..Len(pnl_created) : \E i \in 1..2 :
          ~HasPrice(raw_positions[i].asset_symbol, pnl_created[k].date.day)

\* the scenario has gone through create_pnl_tracking
C13_ScenarioReached == PnlDone /\ PnlScenario

\* C14: create_portfolio_snapshots and create_pnl_tracking return an empty
\* table (and nothing is raised) whenever the position list is empty or the
\* price history is empty.
C14_EmptyInputEmptyTable ==
    (raw_positions = <<>> \/ raw_prices = <<>>) =>
        /\ SnapshotsDone => snapshots_created = <<>>
        /\ PnlDone => pnl_created = <<>>

\* both functions have returned for an empty position list and a non-empty
\* price history
C14_Witness ==
    /\ PnlDone
    /\ raw_positions = <<>>
    /\ raw_prices # <<>>

----------------------------------------------------------------------------
(* calculate_allocation_analysis *)

\* current_positions: one row per position with its percentage_allocation
\* (made non-null by transform_current_positions).  portfolio_snapshots: a
\* frame with its set of columns; a table without rows is either a header
\* without rows or pd.DataFrame(), which has no columns at all.
MaxPositions == 3
MaxSnapshots == 2
Percentages == {0, 25, 50, 100}
SnapshotColumns == {"date", "total_portfolio_value", "num_assets", "timestamp"}

PositionTables ==
    UNION {[1..n -> [asset_symbol : {"BTC"}, percentage_allocation : {Num(x) : x \in Percentages}]] :
              n \in 0..MaxPositions}

SnapshotFrames ==
    {[columns |-> {}, rows |-> <<>>]}
    \cup UNION {{[columns |-> SnapshotColumns,
                  rows |-> [i \in 1..n |->
                              [date |-> StrDate(i), total_portfolio_value |-> Num(1),
                               num_assets |-> assets[i], timestamp |-> Isoformat(StrDate(i))]]] :
                    assets \in [1..n -> {0, 1}]} : n \in 0..MaxSnapshots}

\* Series.rank(ascending=False): the average of the places of the ties
Rank(col, i) ==
    Fin(2 * Cardinality({j \in 1..Len(col) : FLt(col[i], col[j])})
            + Cardinality({j \in 1..Len(col) : col[j] = col[i]}) + 1,
        2)

\* percentage_allocation / 100
AllocationFraction(percentage_allocation) == FDiv(percentage_allocation, Num(100))

\* the fraction itself, not its square
ConcentrationRiskLinear(percentage_allocation) == AllocationFraction(percentage_allocation)

\* allocation_fraction ** 2
ConcentrationRisk(percentage_allocation) ==
    FMul(AllocationFraction(percentage_allocation),
         AllocationFraction(percentage_allocation))

\* current_allocation["concentration_risk"].sum()
TotalConcentration(positions) ==
    Total([i \in 1..Len(positions) |-> ConcentrationRisk(positions[i].percentage_allocation)])

\* 1 / total_concentration, whatever total_concentration is
EffectiveAssetsUnguarded(total_concentration) == FDiv(Num(1), total_concentration)

\* 1 / total_concentration if total_concentration > 0 else 0
EffectiveAssets(total_concentration) ==
    IF FLt(Zero, total_concentration) THEN FDiv(Num(1), total_concentration) ELSE Zero

\* current_allocation without allocation_fraction
CurrentAllocation(positions, total_concentration) ==
    [i \in 1..Len(positions) |->
        [asset_symbol |-> positions[i].asset_symbol,
         percentage_allocation |-> positions[i].percentage_allocation,
         allocation_rank |->
            Rank([j \in 1..Len(positions) |-> positions[j].percentage_allocation], i),
         concentration_risk |-> ConcentrationRisk(positions[i].percentage_allocation),
         portfolio_concentration |-> total_concentration,
         effective_assets |-> EffectiveAssets(total_concentration),
         diversification_score |-> FSub(Num(1), total_concentration)]]

\* allocation_history: one record per snapshot row
AllocationHistory(frame) ==
    [i \in 1..Len(frame.rows) |->
        [date |-> frame.rows[i].date,
         num_assets |-> frame.rows[i].num_assets,
         total_value |-> frame.rows[i].total_portfolio_value,
         concentration_index |->
            IF frame.rows[i].num_assets > 0
            THEN Fin(1, frame.rows[i].num_assets) ELSE Num(1)]]

\* pd.DataFrame(list of records): the columns are the keys of the records,
\* and there is none when the list is empty
DataFrameOf(records) ==
    [columns |-> IF records = <<>> THEN {} ELSE DOMAIN records[1], rows |-> records]

\* frame[column] raises KeyError when the frame has no such column
Raises(frame, column) == column \notin frame.columns

\* the frame with date parsed, as line 304 leaves the caller's object
WithDatetime(frame) ==
    [columns |-> frame.columns \cup {"date"},
     rows |-> [i \in 1..Len(frame.rows) |->
                  [frame.rows[i] EXCEPT !.date = ToDatetimeCell(@)]]]

\* the outcome of the call: the table returned, or the exception raised
calculate_allocation_analysis(positions, frame) ==
    IF Raises(frame, "date")
    THEN [raised |-> "KeyError: 'date'", table |-> <<>>]
    ELSE IF Raises(DataFrameOf(AllocationHistory(WithDatetime(frame))), "num_assets")
    THEN [raised |-> "KeyError: 'num_assets'", table |-> <<>>]
    ELSE [raised |-> "nothing",
          table |-> CurrentAllocation(positions, TotalConcentration(positions))]

InitAllocation ==
    /\ current_positions \in PositionTables
    /\ snapshots_arg \in SnapshotFrames
    /\ allocation_pc = "loaded"
    /\ allocation_analysis = NoData
    /\ OnlyAllocation

\* allocation_analysis = calculate_allocation_analysis(current_positions, portfolio_snapshots)
CalculateAllocationAnalysis ==
    /\ allocation_pc = "loaded"
    /\ allocation_analysis' = calculate_allocation_analysis(current_positions, snapshots_arg)
    /\ snapshots_arg' = IF Raises(snapshots_arg, "date") THEN snapshots_arg
                        ELSE WithDatetime(snapshots_arg)
    /\ allocation_pc' = "called"
    /\ UNCHANGED <<current_positions, outside_allocation>>

NextAllocation == CalculateAllocationAnalysis

AllocationSpec == InitAllocation /\ [][NextAllocation]_vars

----------------------------------------------------------------------------
(* calculate_allocation_analysis: properties *)

AllocationDone == allocation_pc = "called"
AllocationReturned == AllocationDone /\ allocation_analysis.raised = "nothing"

\* C15: given a non-empty position table and a portfolio-snapshot table with
\* zero rows, calculate_allocation_analysis returns one allocation row per
\* position and does not raise.
C15_EmptySnapshotsNotAFailure ==
    (AllocationDone /\ current_positions # <<>> /\ snapshots_arg.rows = <<>>) =>
        /\ allocation_analysis.raised = "nothing"
        /\ Len(allocation_analysis.table) = Len(current_positions)

\* Sigma (percentage_allocation / 100)^2 over the positions
SumOfSquaredFractions ==
    FDiv(Total([i \in 1..Len(current_positions) |->
                  FMul(current_positions[i].percentage_allocation,
                       current_positions[i].percentage_allocation)]),
         Num(10000))

\* C17: every row returned carries the same portfolio-wide values,
\* portfolio_concentration = Sigma (percentage_allocation/100)^2 over all
\* positions, effective_assets = 1/portfolio_concentration (0 when that is
\* 0) and diversification_score = 1 - portfolio_concentration; its
\* concentration_risk is its own (percentage_allocation/100)^2; the output
\* has exactly one row per input position.
C17_PortfolioWideValues ==
    AllocationReturned =>
        /\ Len(allocation_analysis.table) = Len(current_positions)
        /\ \A i \in 1..Len(allocation_analysis.table) :
              LET row == allocation_analysis.table[i]
              IN  /\ row.portfolio_concentration = SumOfSquaredFractions
                  /\ row.effective_assets =
                        IF SumOfSquaredFractions = Zero THEN Zero
                        ELSE FDiv(Num(1), SumOfSquaredFractions)
                  /\ row.diversification_score = FSub(Num(1), SumOfSquaredFractions)
                  /\ row.concentration_risk =
                        FDiv(FMul(current_positions[i].percentage_allocation,
                                  current_positions[i].percentage_allocation),
                             Num(10000))

\* a table of several positions with different shares was returned
C17_Witness ==
    /\ AllocationReturned
    /\ Len(allocation_analysis.table) >= 2
    /\ allocation_analysis.table[1].portfolio_concentration # Zero
    /\ allocation_analysis.table[1].concentration_risk
          # allocation_analysis.table[2].concentration_risk

PercentagesSumTo100 ==
    /\ current_positions # <<>>
    /\ Total([i \in 1..Len(current_positions) |->
                current_positions[i].percentage_allocation]) = Num(100)

\* C18: for every non-empty position table whose allocation percentages are
\* non-negative and sum to 100, the portfolio concentration lies in (0, 1],
\* effective_assets is exactly 1 / Sigma fraction^2, hence >= 1, and
\* diversification_score lies in [0, 1).
C18_ConcentrationBounds ==
    (AllocationReturned /\ PercentagesSumTo100) =>
        \A i \in 1..Len(allocation_analysis.table) :
            LET row == allocation_analysis.table[i]
            IN  /\ FLt(Zero, row.portfolio_concentration)
                /\ FLe(row.portfolio_concentration, Num(1))
                /\ row.effective_assets = FDiv(Num(1), SumOfSquaredFractions)
                /\ FLe(Num(1), row.effective_assets)
                /\ FLe(Zero, row.diversification_score)
                /\ FLt(row.diversification_score, Num(1))

\* a returned table of three positions, 25 + 25 + 50
C18_Witness ==
    /\ AllocationReturned
    /\ PercentagesSumTo100
    /\ Len(current_positions) = MaxPositions
    /\ FLt(Num(1), allocation_analysis.table[1].effective_assets)

----------------------------------------------------------------------------
(* analytics_calculator: risk_metrics against performance_metrics *)

\* C16: for the same portfolio-snapshot table, the volatility_30d and
\* max_drawdown columns of risk_metrics equal, timestamp by timestamp, those
\* of performance_metrics, also when calculate_risk_metrics is called on the
\* table object calculate_performance_metrics was called on before.
C16_RiskRepeatsPerformance ==
    RiskDone =>
        /\ risk_metrics.date = performance_metrics.date
        /\ risk_metrics.volatility_30d = performance_metrics.volatility_30d
        /\ risk_metrics.max_drawdown = performance_metrics.max_drawdown

\* both functions ran on one table object, stored newest first, long enough
\* for a volatility and with a drawdown
C16_Witness ==
    /\ RiskDone
    /\ portfolio_snapshots[1].date.day > 1
    /\ portfolio_snapshots[1].date.kind = "datetime"
    /\ \E i \in Rows(risk_metrics) :
          /\ risk_metrics.volatility_30d[i] # Zero
          /\ risk_metrics.max_drawdown[i] # Zero

----------------------------------------------------------------------------
(* calculate_correlation_metrics *)

\* prices: the frame read from prices.csv, rows (asset_symbol, date,
\* close_price) with positive closes, asset after asset; a pair (date,
\* asset_symbol) may occur twice.  pd.DataFrame() has no columns.
CorrelationAssets == <<"BTC", "ETH">>
MaxCorrDay == 4
CorrCloses == {1, 2}
NoRow == 0
PriceColumns == {"asset_symbol", "date", "close_price"}

PriceRow(asset, day, close) ==
    [asset_symbol |-> asset, date |-> StrDate(day), close_price |-> Num(close)]

\* the rows of a choice of closes, asset after asset, oldest first
PriceRows(closes) ==
    LET AssetOf(k) == CorrelationAssets[((k - 1) \div MaxCorrDay) + 1]
        DayOf(k) == ((k - 1) % MaxCorrDay) + 1
        present == SelectSeq([k \in 1..(Len(CorrelationAssets) * MaxCorrDay) |-> k],
                             LAMBDA k : closes[<<AssetOf(k), DayOf(k)>>] # NoRow)
    IN  [i \in 1..Len(present) |->
            PriceRow(AssetOf(present[i]), DayOf(present[i]),
                     closes[<<AssetOf(present[i]), DayOf(present[i])>>])]

\* the same rows, the first pair occurring once more at the end with
\* another close
WithDuplicate(rows) ==
    IF rows = <<>> THEN rows
    ELSE Append(rows, [rows[1] EXCEPT !.close_price = FAdd(@, Num(1))])

PriceFrames ==
    {[columns |-> {}, rows |-> <<>>]}
    \cup {[columns |-> PriceColumns, rows |-> PriceRows(closes)] :
            closes \in [{CorrelationAssets[1], CorrelationAssets[2]} \X (1..MaxCorrDay)
                            -> CorrCloses \cup {NoRow}]}
    \cup {[columns |-> PriceColumns, rows |-> WithDuplicate(PriceRows(closes))] :
            closes \in [{CorrelationAssets[1], CorrelationAssets[2]} \X (1..MaxCorrDay)
                            -> CorrCloses \cup {NoRow}]}

\* keep="first"
DropDuplicatesKeepFirst(rows) ==
    LET kept == {i \in 1..Len(rows) :
                    \A j \in 1..(i - 1) :
                        ~(rows[j].date.day = rows[i].date.day
                          /\ rows[j].asset_symbol = rows[i].asset_symbol)}
        index == Ascending(kept)
    IN  [k \in 1..Len(index) |->
            [rows[index[k]] EXCEPT !.date = ToDatetimeCell(@)]]

\* prices_df.drop_duplicates(subset=["date", "asset_symbol"], keep="last"),
\* on rows whose date is parsed
DropDuplicatesKeepLast(rows) ==
    LET kept == {i \in 1..Len(rows) :
                    \A j \in (i + 1)..Len(rows) :
                        ~(rows[j].date.day = rows[i].date.day
                          /\ rows[j].asset_symbol = rows[i].asset_symbol)}
        index == Ascending(kept)
    IN  [k \in 1..Len(index) |->
            [rows[index[k]] EXCEPT !.date = ToDatetimeCell(@)]]

\* the index and the columns of the pivot, both sorted
PivotDates(rows) == Ascending({rows[i].date.day : i \in 1..Len(rows)})
PivotAssets(rows) ==
    SelectSeq(CorrelationAssets,
              LAMBDA a : \E i \in 1..Len(rows) : rows[i].asset_symbol = a)

\* the close of (date, asset), null where the pair has no row
PivotCell(rows, day, asset) ==
    LET at == {i \in 1..Len(rows) : rows[i].date.day = day /\ rows[i].asset_symbol = asset}
    IN  IF at = {} THEN NaN ELSE rows[CHOOSE i \in at : TRUE].close_price

\* prices_df.pivot(index="date", columns="asset_symbol",
\* values="close_price").fillna(0): one column per asset
PricePivot(rows, dates, assets) ==
    [a \in 1..Len(assets) |->
        FillZero([d \in 1..Len(dates) |-> PivotCell(rows, dates[d], assets[a])])]

\* the rows of a wide table in which no cell is null
CompleteRows(wide, n) ==
    Ascending({d \in 1..n : \A a \in 1..Len(wide) : ~IsNull(wide[a][d])})

\* DataFrame.dropna()
DropnaRows(wide, keep) ==
    [a \in 1..Len(wide) |-> [k \in 1..Len(keep) |-> wide[a][keep[k]]]]

PctChangeColumns(wide) == [a \in 1..Len(wide) |-> PctChange(wide[a])]

\* price_pivot.pct_change().dropna()
ReturnsOf(changes, n) == DropnaRows(changes, CompleteRows(changes, n))

\* the greatest k in lo..hi with k * k <= n
RECURSIVE RootBetween(_, _, _)
RootBetween(n, lo, hi) ==
    IF lo = hi THEN lo
    ELSE IF ((lo + hi + 1) \div 2) <= n \div ((lo + hi + 1) \div 2)
    THEN RootBetween(n, (lo + hi + 1) \div 2, hi)
    ELSE RootBetween(n, lo, ((lo + hi + 1) \div 2) - 1)

Root(n) == RootBetween(n, 0, n)
IsSquare(n) == Root(n) * Root(n) = n

\* the same number, with the square root taken where it is rational
Simplify(a) ==
    IF a.k = "fin" /\ IsSquare(a.rn) /\ IsSquare(a.rd)
    THEN Fin(a.n * Root(a.rn), a.d * Root(a.rd))
    ELSE a

\* sum of (x - mean_x)(y - mean_y)
CoMoment(x, y, mean_x, mean_y) ==
    Total([i \in 1..Len(x) |-> FMul(FSub(x[i], mean_x), FSub(y[i], mean_y))])

\* covxy / divisor if divisor != 0 else NaN, as nancorr
CorrelationFrom(covxy, divisor) ==
    IF divisor = Zero THEN NaN ELSE Simplify(FDiv(covxy, divisor))

\* the observations of x at which both columns are finite (nancorr's mask)
Observed(x, y) ==
    LET both == Ascending({i \in 1..Len(x) : x[i].k = "fin" /\ y[i].k = "fin"})
    IN  [k \in 1..Len(both) |-> x[both[k]]]

CorrelationOfObserved(x, y) ==
    IF Len(x) < 1 THEN NaN
    ELSE CorrelationFrom(CoMoment(x, y, Mean(x), Mean(y)),
                         Sqrt(FMul(CoMoment(x, x, Mean(x), Mean(x)),
                                   CoMoment(y, y, Mean(y), Mean(y)))))

\* the Pearson correlation of two return columns, over the rows in which
\* both are finite
Correlation(x, y) == CorrelationOfObserved(Observed(x, y), Observed(y, x))

\* returns.corr(): entry [a][b] for the columns a and b
CorrelationMatrix(returns) ==
    [a \in 1..Len(returns) |-> [b \in 1..Len(returns) |->
        IF a <= b THEN Correlation(returns[a], returns[b])
        ELSE Correlation(returns[b], returns[a])]]

\* upper_triangle.stack(): the entries above the diagonal that are not null
UpperTriangle(matrix) ==
    LET k == Len(matrix)
        cells == [c \in 1..(k * k) |-> <<((c - 1) \div k) + 1, ((c - 1) % k) + 1>>]
        above == SelectSeq(cells, LAMBDA c : c[1] < c[2] /\ ~IsNull(matrix[c[1]][c[2]]))
    IN  [i \in 1..Len(above) |-> matrix[above[i][1]][above[i][2]]]

\* 1 - abs(avg_correlation)
DiversificationScore(avg_correlation) == FSub(Num(1), FAbs(avg_correlation))

\* correlation_matrix.to_dict(): column -> (row -> value)
ToDict(matrix, assets) ==
    [a \in {assets[i] : i \in 1..Len(assets)} |->
        [b \in {assets[i] : i \in 1..Len(assets)} |->
            matrix[CHOOSE i \in 1..Len(assets) : assets[i] = a]
                  [CHOOSE j \in 1..Len(assets) : assets[j] = b]]]

\* notes are kept as the pieces of the f-string

\* json.dumps of a dict
JsonDumps(dict) == [json |-> dict]

\* the single row returned when there is nothing to compute, and on an exception
InsufficientData(notes) ==
    [calculation_date |-> "now",
     avg_correlation |-> Zero,
     diversification_score |-> Zero,
     correlation_matrix |-> JsonDumps(NoData),
     notes |-> notes]

ComputedFrom(matrix, avg_correlation, assets) ==
    [calculation_date |-> "now",
     avg_correlation |-> avg_correlation,
     diversification_score |-> DiversificationScore(avg_correlation),
     correlation_matrix |-> JsonDumps(ToDict(matrix, assets)),
     notes |-> <<"Correlation calculated for ", Len(assets), " assets.">>]

Computed(matrix, assets) == ComputedFrom(matrix, Mean(UpperTriangle(matrix)), assets)

\* the pivot raises ValueError when a pair (date, asset) has two rows
PivotRaises(rows) ==
    \E i, j \in 1..Len(rows) :
        i # j /\ rows[i].date.day = rows[j].date.day
              /\ rows[i].asset_symbol = rows[j].asset_symbol

\* groupby(["date", "asset_symbol"])["close_price"].mean().reset_index()
GroupbyMean(rows) ==
    LET firsts == Ascending({i \in 1..Len(rows) :
                    \A j \in 1..(i - 1) :
                        ~(rows[j].date.day = rows[i].date.day
                          /\ rows[j].asset_symbol = rows[i].asset_symbol)})
        Same(i) == SelectSeq(rows, LAMBDA r : r.date.day = rows[i].date.day
                                              /\ r.asset_symbol = rows[i].asset_symbol)
    IN  [k \in 1..Len(firsts) |->
            [rows[firsts[k]] EXCEPT
                !.close_price = Mean([m \in 1..Len(Same(firsts[k])) |->
                                         Same(firsts[k])[m].close_price])]]

Pivoted(rows) == IF PivotRaises(rows) THEN GroupbyMean(rows) ELSE rows

\* as CorrelationOfReturns, computing from a single return row as well
CorrelationOfAnyReturns(returns, assets) ==
    IF Len(returns[1]) < 1 THEN InsufficientData(<<"Insufficient return data">>)
    ELSE Computed(CorrelationMatrix(returns), assets)

CorrelationOfReturns(returns, assets) ==
    IF Len(returns[1]) < 2 THEN InsufficientData(<<"Insufficient return data">>)
    ELSE Computed(CorrelationMatrix(returns), assets)

CorrelationOfPivot(rows, dates, assets) ==
    IF Len(assets) < 2
    THEN InsufficientData(<<"Only ", Len(assets), " asset(s) available">>)
    ELSE CorrelationOfReturns(
            ReturnsOf(PctChangeColumns(PricePivot(rows, dates, assets)), Len(dates)),
            assets)

CorrelationOfRows(rows) ==
    IF Len(rows) = 0 THEN InsufficientData(<<"No price data available">>)
    ELSE CorrelationOfPivot(Pivoted(rows), PivotDates(rows), PivotAssets(rows))

calculate_correlation_metrics(frame) ==
    IF Raises(frame, "date") THEN InsufficientData(<<"Error in calculation: 'date'">>)
    ELSE CorrelationOfRows(DropDuplicatesKeepLast(frame.rows))

InitCorrelation ==
    /\ prices \in PriceFrames
    /\ correlation_pc = "loaded"
    /\ correlation_metrics = NoData
    /\ OnlyCorrelation

\* correlation_metrics = calculate_correlation_metrics(processed_data["prices"])
CalculateCorrelationMetrics ==
    /\ correlation_pc = "loaded"
    /\ correlation_metrics' = calculate_correlation_metrics(prices)
    /\ correlation_pc' = "called"
    /\ UNCHANGED <<prices, outside_correlation>>

NextCorrelation == CalculateCorrelationMetrics

CorrelationSpec == InitCorrelation /\ [][NextCorrelation]_vars

(* Claims about calculate_correlation_metrics *)

CorrelationDone == correlation_pc = "called"

\* the price history as the caller passed it: its assets, its days, and the
\* close that counts for a pair (the one of its last row)
HistoryAssets == {prices.rows[i].asset_symbol : i \in 1..Len(prices.rows)}
HistoryDates == {prices.rows[i].date.day : i \in 1..Len(prices.rows)}
Quoted(asset, day) ==
    \E i \in 1..Len(prices.rows) :
        prices.rows[i].asset_symbol = asset /\ prices.rows[i].date.day = day
LastClose(asset, day) ==
    prices.rows[Latest({i \in 1..Len(prices.rows) :
                            prices.rows[i].asset_symbol = asset
                            /\ prices.rows[i].date.day = day})].close_price

\* a day gives an aligned return row when it is not the first one and no
\* asset went from a gap to a gap (0 / 0 has no return)
PreviousDate(day) == Latest({d \in HistoryDates : d < day})
Aligned(day) ==
    /\ \E d \in HistoryDates : d < day
    /\ \A a \in HistoryAssets : Quoted(a, day) \/ Quoted(a, PreviousDate(day))
AlignedDates == {d \in HistoryDates : Aligned(d)}

InsufficientHistory ==
    \/ Len(prices.rows) = 0
    \/ Cardinality(HistoryAssets) < 2
    \/ Cardinality(AlignedDates) < 2

IsInsufficientDataRow(row) ==
    /\ row.avg_correlation = Zero
    /\ row.diversification_score = Zero
    /\ row.correlation_matrix = JsonDumps(NoData)
    /\ row.notes # <<>>

IsComputedRow(row) ==
    /\ row.correlation_matrix # JsonDumps(NoData)
    /\ DOMAIN row.correlation_matrix.json = HistoryAssets
    /\ row.avg_correlation = Mean(UpperTriangle(
            [a \in 1..Len(CorrelationAssets) |-> [b \in 1..Len(CorrelationAssets) |->
                row.correlation_matrix.json[CorrelationAssets[a]][CorrelationAssets[b]]]]))
    /\ row.diversification_score = DiversificationScore(row.avg_correlation)
    /\ row.notes = <<"Correlation calculated for ", Cardinality(HistoryAssets), " assets.">>

\* C19: the call returns one row; it is the insufficient-data row (both
\* metrics 0, empty matrix, a reason) exactly when the history is empty, has
\* fewer than 2 assets or gives fewer than 2 aligned return rows, and a
\* computed result in every other case
C19_InsufficientDataOrComputed ==
    CorrelationDone =>
        IF InsufficientHistory
        THEN IsInsufficientDataRow(correlation_metrics)
        ELSE IsComputedRow(correlation_metrics)

\* two assets, a single aligned return row: the reason is the return data
C19_Witness ==
    /\ CorrelationDone
    /\ Cardinality(HistoryAssets) = 2
    /\ Cardinality(AlignedDates) = 1
    /\ correlation_metrics.notes = <<"Insufficient return data">>

\* a computed result with a correlation strictly between -1 and 1
C19_ComputedReached ==
    /\ CorrelationDone
    /\ ~InsufficientHistory
    /\ IsFinite(correlation_metrics.avg_correlation)
    /\ correlation_metrics.avg_correlation \notin {Num(1), Num(-1), Zero}

MatrixSymmetric(matrix) ==
    \A a, b \in DOMAIN matrix : matrix[a][b] = matrix[b][a]

UnitDiagonal(matrix) ==
    \A a \in DOMAIN matrix : matrix[a][a] = Num(1)

\* C20: with at least 2 assets and at least 2 aligned return rows, the
\* emitted correlation matrix is symmetric and every diagonal entry is 1
C20_SymmetricUnitDiagonal ==
    (CorrelationDone /\ ~InsufficientHistory) =>
        /\ MatrixSymmetric(correlation_metrics.correlation_matrix.json)
        /\ UnitDiagonal(correlation_metrics.correlation_matrix.json)

\* the symmetry alone
C20_Symmetric ==
    (CorrelationDone /\ ~InsufficientHistory) =>
        MatrixSymmetric(correlation_metrics.correlation_matrix.json)

\* an asset quoted at one constant price on every day, next to one that moves
C20_ConstantPrice ==
    /\ CorrelationDone
    /\ ~InsufficientHistory
    /\ \E a \in HistoryAssets :
        /\ \A d \in HistoryDates : Quoted(a, d) /\ LastClose(a, d) = Num(1)
        /\ correlation_metrics.correlation_matrix.json[a][a] = NaN

\* the return table of the call: returns = price_pivot.pct_change().dropna()
Deduplicated == DropDuplicatesKeepLast(prices.rows)
ReturnTable ==
    ReturnsOf(PctChangeColumns(PricePivot(Pivoted(Deduplicated),
                                          PivotDates(Deduplicated),
                                          PivotAssets(Deduplicated))),
              Len(PivotDates(Deduplicated)))

\* C21: the return table has one row per consecutive pair of timestamps:
\* a history with n distinct timestamps gives n - 1 aligned return rows
C21_OnlyFirstRowDropped ==
    (CorrelationDone /\ Cardinality(HistoryAssets) >= 2) =>
        Len(ReturnTable[1]) = Cardinality(HistoryDates) - 1

\* three timestamps, yet the call reports insufficient return data
C21_RowLostToGap ==
    /\ CorrelationDone
    /\ Cardinality(HistoryAssets) = 2
    /\ Cardinality(HistoryDates) = 3
    /\ Len(ReturnTable[1]) = 1
    /\ correlation_metrics.notes = <<"Insufficient return data">>

----------------------------------------------------------------------------
(* Further claims about the reconciled series *)

ValuesAt(platform, t) ==
    {Valuations(platform)[j].value :
        j \in {k \in 1..Len(Valuations(platform)) : Valuations(platform)[k].timestamp = t}}

\* ta and tb are the timestamps of two consecutive valuations around t
Bracket(platform, ta, t, tb) ==
    /\ ta < t /\ t < tb
    /\ ta \in TimesOf(Valuations(platform))
    /\ tb \in TimesOf(Valuations(platform))
    /\ \A u \in TimesOf(Valuations(platform)) : u <= ta \/ u >= tb

\* C22: a row without a valuation between two consecutive valuations
\* (ta, va), (tb, vb) has imputed value va + (vb - va)(t - ta)/(tb - ta),
\* rounded to 2 decimals in the output; a row with a valuation has the
\* observed value as imputed value
C22_TimeWeightedInterpolation ==
    \A pf \in Produced : \A i \in 1..Len(pf[2]) :
        LET row == pf[2][i]
        IN  /\ ~IsNull(row.pension_value) =>
                  row.imputed_pension_value = row.pension_value
            /\ IsNull(row.pension_value) =>
                  \A ta, tb \in Times :
                      Bracket(pf[1], ta, row.timestamp, tb) =>
                          \E va \in ValuesAt(pf[1], ta), vb \in ValuesAt(pf[1], tb) :
                              row.imputed_pension_value =
                                  Round(FAdd(Num(va),
                                             FMul(Num(vb - va),
                                                  Fin(row.timestamp - ta, tb - ta))), 2)

\* a row between two different valuations, nearer to one of them, the only
\* row between them
C22_Witness ==
    \E pf \in Produced : \E i \in 1..Len(pf[2]) : \E ta, tb \in Times :
        /\ IsNull(pf[2][i].pension_value)
        /\ Bracket(pf[1], ta, pf[2][i].timestamp, tb)
        /\ pf[2][i].timestamp - ta # tb - pf[2][i].timestamp
        /\ ValuesAt(pf[1], ta) # ValuesAt(pf[1], tb)
        /\ \A j \in 1..Len(pf[2]) :
              (ta < pf[2][j].timestamp /\ pf[2][j].timestamp < tb) => j = i

\* the timestamps the series of an account has to cover
EventTimes(platform) ==
    {t \in TimesOf(Contributions(platform)) \cup TimesOf(Valuations(platform)) :
        t >= Earliest(TimesOf(Contributions(platform)))}

\* C23: the reconciled series has exactly one row per distinct event
\* timestamp at or after the first contribution, in strictly increasing
\* order; a timestamp shared by a contribution and a valuation has one row
\* holding both values; a valuation before the first contribution has no row
C23_OneRowPerTimestamp ==
    \A pf \in Produced :
        /\ {pf[2][i].timestamp : i \in 1..Len(pf[2])} = EventTimes(pf[1])
        /\ Len(pf[2]) = Cardinality(EventTimes(pf[1]))
        /\ \A i \in 1..(Len(pf[2]) - 1) : pf[2][i].timestamp < pf[2][i + 1].timestamp
        /\ \A i \in 1..Len(pf[2]) :
              (pf[2][i].timestamp \in TimesOf(Contributions(pf[1]))
                    \cap TimesOf(Valuations(pf[1]))) =>
                  /\ ~IsNull(pf[2][i].cash_invested)
                  /\ \E v \in ValuesAt(pf[1], pf[2][i].timestamp) :
                        pf[2][i].pension_value = Round(Num(v), 2)
        /\ \A t \in TimesOf(Valuations(pf[1])) :
              t < Earliest(TimesOf(Contributions(pf[1]))) => ~HasRowAt(pf[2], t)

\* a series with a shared timestamp, of an account that has a valuation
\* before its first contribution
C23_Witness ==
    \E pf \in Produced :
        /\ \E t \in TimesOf(Valuations(pf[1])) :
              t < Earliest(TimesOf(Contributions(pf[1])))
        /\ \E i \in 1..Len(pf[2]) :
              pf[2][i].timestamp \in TimesOf(Contributions(pf[1]))
                    \cap TimesOf(Valuations(pf[1]))

----------------------------------------------------------------------------
(* The per-entity loops: get_price_history and get_market_data (one        *)
(* product), calculate_performance_timeseries (one platform),              *)
(* calculate_market_insights (one asset).  The computation for an entity   *)
(* either yields its result or raises.                                      *)

fiat_products == <<"ADA-GBP", "BTC-GBP", "ETH-GBP", "SOL-GBP">>
insight_assets == <<"BTC", "ETH", "SOL", "ADA">>

BatchFunctions ==
    {"get_price_history", "get_market_data",
     "calculate_performance_timeseries", "calculate_market_insights"}

\* what the loop of a function runs over
EntitiesOf(fn) ==
    CASE fn = "get_price_history" -> fiat_products
      [] fn = "get_market_data" -> fiat_products
      [] fn = "calculate_performance_timeseries" -> pension_platforms
      [] fn = "calculate_market_insights" -> insight_assets

InitBatch ==
    /\ batch_fn \in BatchFunctions
    /\ batch_i = 1
    /\ batch_raised = {}
    /\ batch_skipped = {}
    /\ batch_results = <<>>
    /\ batch_status = "running"
    /\ OnlyBatch

InLoop(fn) ==
    /\ batch_fn = fn
    /\ batch_status = "running"
    /\ batch_i <= Len(EntitiesOf(fn))

\* the loop body ran to its end: the entity's result is appended
Yields ==
    /\ batch_results' = Append(batch_results, EntitiesOf(batch_fn)[batch_i])
    /\ batch_i' = batch_i + 1
    /\ UNCHANGED <<batch_fn, batch_raised, batch_skipped, batch_status, outside_batch>>

\* the loop body raised inside a try whose handler continues
RaisesAndContinues ==
    /\ batch_raised' = batch_raised \cup {EntitiesOf(batch_fn)[batch_i]}
    /\ batch_i' = batch_i + 1
    /\ UNCHANGED <<batch_fn, batch_skipped, batch_results, batch_status, outside_batch>>

\* the loop body raised and nothing in the loop catches it: the function is
\* left through the exception and its local results are lost to the caller
RaisesAndPropagates ==
    /\ batch_raised' = batch_raised \cup {EntitiesOf(batch_fn)[batch_i]}
    /\ batch_status' = "raised"
    /\ UNCHANGED <<batch_fn, batch_i, batch_skipped, batch_results, outside_batch>>

\* the loop's guard leaves the entity out: continue, nothing raised
Skips ==
    /\ batch_skipped' = batch_skipped \cup {EntitiesOf(batch_fn)[batch_i]}
    /\ batch_i' = batch_i + 1
    /\ UNCHANGED <<batch_fn, batch_raised, batch_results, batch_status, outside_batch>>

\* data_extractor.get_price_history, lines 157-225: try ... except: continue
PriceHistoryProduct ==
    /\ InLoop("get_price_history")
    /\ (Yields \/ RaisesAndContinues)

\* data_extractor.get_market_data, lines 300-412: try ... except: continue
MarketDataProduct ==
    /\ InLoop("get_market_data")
    /\ (Yields \/ RaisesAndContinues)

\* calculate_performance_timeseries, lines 56-144: no try in the loop or
\* around it
PensionPlatform ==
    /\ InLoop("calculate_performance_timeseries")
    /\ (Yields \/ RaisesAndPropagates)

\* calculate_market_insights, lines 351-414: an asset with fewer than 30
\* prices is left out (lines 354-355); no try in the loop; the try around it
\* re-raises (lines 421-423)
InsightAsset ==
    /\ InLoop("calculate_market_insights")
    /\ (Skips \/ Yields \/ RaisesAndPropagates)

\* the loop is over: the function returns what it collected
BatchReturns ==
    /\ batch_status = "running"
    /\ batch_i > Len(EntitiesOf(batch_fn))
    /\ batch_status' = "returned"
    /\ UNCHANGED <<batch_fn, batch_i, batch_raised, batch_skipped, batch_results, outside_batch>>

NextBatch ==
    \/ PriceHistoryProduct
    \/ MarketDataProduct
    \/ PensionPlatform
    \/ InsightAsset
    \/ BatchReturns

BatchSpec == InitBatch /\ [][NextBatch]_vars

(* Claims about the per-entity loops *)

\* the entities of the running function whose computation did not raise
Healthy ==
    SelectSeq(EntitiesOf(batch_fn), LAMBDA e : e \notin batch_raised \cup batch_skipped)

BatchOver == batch_status \in {"returned", "raised"}

\* C24: a failure of one entity's computation is skipped and the batch
\* continues: the function returns, with the result of every other entity
C24_FailedEntitySkipped ==
    BatchOver => (batch_status = "returned" /\ batch_results = Healthy)

\* the same for the two collection loops alone
C24_CollectionSkips ==
    (BatchOver /\ batch_fn \in {"get_price_history", "get_market_data"}) =>
        (batch_status = "returned" /\ batch_results = Healthy)

\* the first platform raised: no platform has a result
C24_PlatformFailureEndsBatch ==
    /\ batch_fn = "calculate_performance_timeseries"
    /\ batch_status = "raised"
    /\ batch_raised = {pension_platforms[1]}

----------------------------------------------------------------------------
(* Further claims about performance_metrics and risk_metrics *)

\* a value as the tables report it: 0 in place of a null or an infinity
Reported(x) == IF IsNull(x) \/ IsInf(x) THEN Zero ELSE x

\* the trailing window of the reported daily returns that ends in record k;
\* the first record's return is reported as 0
ReportedWindow(k) == Window(performance_metrics.daily_return, k, VolatilityWindow)

StdOf(x) == RollingStd(x, Len(x))[Len(x)]

\* C25: var_95_30d, cvar_95_30d and volatility_30d are 0 at the records
\* k < 30 and are computed from the trailing 30 daily returns at every
\* record k >= 30, the first record's return counting as a sample of value 0
C25_DefinedFromRecord30 ==
    RiskDone =>
        \A k \in Rows(risk_metrics) :
            IF k < VolatilityWindow
            THEN /\ risk_metrics.var_95_30d[k] = Zero
                 /\ risk_metrics.cvar_95_30d[k] = Zero
                 /\ risk_metrics.volatility_30d[k] = Zero
            ELSE /\ risk_metrics.var_95_30d[k] =
                        Reported(Quantile(ReportedWindow(k), 5, 100))
                 /\ risk_metrics.cvar_95_30d[k] =
                        Reported(calculate_cvar(ReportedWindow(k)))
                 /\ risk_metrics.volatility_30d[k] =
                        Reported(FMul(StdOf(ReportedWindow(k)), Sqrt(Num(TradingDays))))

\* what the tables hold: the three columns are 0 up to and including record 30
C25_UndefinedThroughRecord30 ==
    RiskDone =>
        \A k \in Rows(risk_metrics) :
            k <= VolatilityWindow =>
                /\ risk_metrics.var_95_30d[k] = Zero
                /\ risk_metrics.cvar_95_30d[k] = Zero
                /\ risk_metrics.volatility_30d[k] = Zero

\* record 30 of a series whose 30 reported returns have a 5th percentile
\* other than 0
C25_Record30Reached ==
    /\ RiskDone
    /\ Len(risk_metrics.date) >= VolatilityWindow
    /\ Quantile(ReportedWindow(VolatilityWindow), 5, 100) # Zero
    /\ risk_metrics.var_95_30d[VolatilityWindow] = Zero

DailyRiskFree == FDiv(risk_free_rate, Num(TradingDays))

\* C26: every record of performance_metrics has beta = 1 and alpha = its
\* reported daily_return - 0.02/252, the first record included
C26_BetaOneAlphaExcess ==
    PerformanceDone =>
        \A i \in Rows(performance_metrics) :
            /\ performance_metrics.beta[i] = Num(1)
            /\ performance_metrics.alpha[i] =
                  FSub(performance_metrics.daily_return[i], DailyRiskFree)

\* the same without the first record and the records after a value of 0
C26_WhereReturnDefined ==
    PerformanceDone =>
        \A i \in Rows(performance_metrics) :
            /\ performance_metrics.beta[i] = Num(1)
            /\ (i > 1 /\ performance_metrics.total_portfolio_value[i - 1] # Zero) =>
                  performance_metrics.alpha[i] =
                      FSub(performance_metrics.daily_return[i], DailyRiskFree)

\* the first record of a series without zeros reports alpha = 0
C26_FirstAlphaZero ==
    /\ PerformanceDone
    /\ \A i \in Rows(performance_metrics) :
          performance_metrics.total_portfolio_value[i] # Zero
    /\ Len(performance_metrics.date) > 1
    /\ performance_metrics.daily_return[1] = Zero
    /\ performance_metrics.alpha[1] = Zero

\* C29: the information_ratio column of risk_metrics equals the
\* sharpe_ratio column of performance_metrics at every timestamp
C29_InformationRatioIsSharpe ==
    RiskDone =>
        /\ risk_metrics.date = performance_metrics.date
        /\ risk_metrics.information_ratio = performance_metrics.sharpe_ratio

\* a series long enough for a ratio other than 0
C29_Witness ==
    /\ RiskDone
    /\ \E i \in Rows(risk_metrics) : performance_metrics.sharpe_ratio[i] # Zero

----------------------------------------------------------------------------
(* Further claims about calculate_correlation_metrics *)

\* the history with one row per pair, holding the close of the pair's last
\* occurrence
LastRows ==
    LET pairs == SelectSeq(
                    [k \in 1..(Len(CorrelationAssets) * MaxCorrDay) |->
                        <<CorrelationAssets[((k - 1) \div MaxCorrDay) + 1],
                          ((k - 1) % MaxCorrDay) + 1>>],
                    LAMBDA pair : Quoted(pair[1], pair[2]))
    IN  [i \in 1..Len(pairs) |->
            [asset_symbol |-> pairs[i][1],
             date |-> StrDate(pairs[i][2]),
             close_price |-> LastClose(pairs[i][1], pairs[i][2])]]

HasDuplicatedPair ==
    \E i, j \in 1..Len(prices.rows) :
        /\ i < j
        /\ prices.rows[i].asset_symbol = prices.rows[j].asset_symbol
        /\ prices.rows[i].date.day = prices.rows[j].date.day
        /\ prices.rows[i].close_price # prices.rows[j].close_price

\* every row holds the close of its pair's last occurrence, no pair occurs
\* twice, and the pivot takes the rows as they are
LastOccurrenceOnly(rows) ==
    /\ \A i \in 1..Len(rows) :
          rows[i].close_price = LastClose(rows[i].asset_symbol, rows[i].date.day)
    /\ \A i, j \in 1..Len(rows) :
          (rows[i].asset_symbol = rows[j].asset_symbol
              /\ rows[i].date.day = rows[j].date.day) => i = j
    /\ ~PivotRaises(rows)
    /\ Pivoted(rows) = rows

\* C27: the close used for a pair (timestamp, asset) is the one of its last
\* occurrence in input order; after the deduplication no pair occurs twice,
\* the pivot does not fail and the averaging fallback is not taken; the
\* result is the one of the history with the last occurrences only
C27_LastOccurrenceWins ==
    (CorrelationDone /\ ~Raises(prices, "date")) =>
        /\ LastOccurrenceOnly(Deduplicated)
        /\ correlation_metrics =
              calculate_correlation_metrics([columns |-> PriceColumns, rows |-> LastRows])

\* a pair with two different closes in a history that gives a correlation
C27_Witness ==
    /\ CorrelationDone
    /\ HasDuplicatedPair
    /\ ~InsufficientHistory
    /\ IsFinite(correlation_metrics.avg_correlation)

----------------------------------------------------------------------------
(* analytics_calculator.main with its collaborators: load_processed_data,  *)
(* the five calculations, save_analytics_to_s3.  A call either returns or  *)
(* raises; every handler on the way re-raises.                              *)

\* analytics_data, in the order of the calculations and of the uploads
Artifacts ==
    <<"performance_metrics", "risk_metrics", "allocation_analysis",
      "market_insights", "correlation_metrics">>

\* len() of a table a calculation returned
RecordCounts == {0, 1}

AllComputed(artifacts) == DOMAIN artifacts = {Artifacts[k] : k \in 1..Len(Artifacts)}

InitRun ==
    /\ run_pc = "load"
    /\ run_artifacts = NoData
    /\ run_persisted = <<>>
    /\ run_result = NoData
    /\ OnlyRun

\* an exception reaches main's handler, which prints and re-raises
RunRaises(at) ==
    /\ run_pc' = "raised"
    /\ run_result' = [status |-> "raised", at |-> at]
    /\ UNCHANGED <<run_artifacts, run_persisted, outside_run>>

\* processed_data = load_processed_data(ENVIRONMENT)
LoadProcessedData ==
    /\ run_pc = "load"
    /\ \/ /\ run_pc' = "calculate"
          /\ UNCHANGED <<run_artifacts, run_persisted, run_result, outside_run>>
       \/ RunRaises("load_processed_data")

\* the calculations go on at once with the first upload
AfterCalculationSave(artifacts) == "save"

\* where main goes on after a calculation returned: the next calculation,
\* or the save once analytics_data can be built
AfterCalculation(artifacts) ==
    IF AllComputed(artifacts) THEN "save" ELSE "calculate"

\* the calculation of artifact k returns a table of some length
Returns(k, records) ==
    /\ run_artifacts' = (Artifacts[k] :> records) @@ run_artifacts
    /\ run_pc' = AfterCalculation((Artifacts[k] :> records) @@ run_artifacts)
    /\ UNCHANGED <<run_persisted, run_result, outside_run>>

AtCalculation(k) ==
    /\ run_pc = "calculate"
    /\ Cardinality(DOMAIN run_artifacts) = k - 1

\* lines 608-627: calculate_performance_metrics, calculate_risk_metrics,
\* calculate_allocation_analysis, calculate_market_insights; each returns
\* its table or re-raises
CalculateArtifact ==
    \E k \in 1..(Len(Artifacts) - 1) :
        /\ AtCalculation(k)
        /\ \/ \E records \in RecordCounts : Returns(k, records)
           \/ RunRaises(Artifacts[k])

\* lines 629-630: calculate_correlation_metrics returns its single row in
\* every case, the one of its except clause included
CalculateCorrelation ==
    /\ AtCalculation(Len(Artifacts))
    /\ Returns(Len(Artifacts), 1)

\* save_analytics_to_s3: the uploads one after the other; a failed upload
\* is re-raised and the earlier ones stay
UploadArtifact ==
    /\ run_pc = "save"
    /\ Len(run_persisted) < Len(Artifacts)
    /\ \/ /\ run_persisted' = Append(run_persisted, Artifacts[Len(run_persisted) + 1])
          /\ UNCHANGED <<run_pc, run_artifacts, run_result, outside_run>>
       \/ RunRaises("save_analytics_to_s3")

\* lines 650-662: the summary
Summary(artifacts) ==
    [status |-> "success",
     analytics_created |-> Artifacts,
     records_processed |-> artifacts]

ReturnSummary ==
    /\ run_pc = "save"
    /\ Len(run_persisted) = Len(Artifacts)
    /\ run_pc' = "returned"
    /\ run_result' = Summary(run_artifacts)
    /\ UNCHANGED <<run_artifacts, run_persisted, outside_run>>

NextRun ==
    \/ LoadProcessedData
    \/ CalculateArtifact
    \/ CalculateCorrelation
    \/ UploadArtifact
    \/ ReturnSummary

RunSpec == InitRun /\ [][NextRun]_vars

(* Claims about a run of the analytics step *)

RunOver == run_pc \in {"returned", "raised"}
RunSucceeded == run_pc = "returned"
CalculationFailed ==
    /\ run_pc = "raised"
    /\ run_result.at \in {Artifacts[k] : k \in 1..Len(Artifacts)}

\* C28: a run returns the success summary with the record count of each of
\* the five artifacts, after the five were computed and then saved, or it
\* raises; nothing is persisted in a run in which a calculation failed, and
\* nothing is persisted before the last calculation has finished
C28_SummaryOrRaise ==
    /\ RunOver => run_result.status = (IF RunSucceeded THEN "success" ELSE "raised")
    /\ RunSucceeded =>
          /\ AllComputed(run_artifacts)
          /\ run_persisted = Artifacts
          /\ DOMAIN run_result.records_processed = {Artifacts[k] : k \in 1..Len(Artifacts)}
          /\ run_result.records_processed = run_artifacts
    /\ CalculationFailed => run_persisted = <<>>
    /\ run_persisted # <<>> => AllComputed(run_artifacts)
    /\ ~RunOver => run_result = NoData

\* a run that returned its summary
C28_Witness ==
    /\ RunSucceeded
    /\ run_result.records_processed["market_insights"] = 1

\* a run that failed in a calculation after another one had returned
C28_FailedCalculationReached ==
    /\ CalculationFailed
    /\ run_artifacts # NoData

----------------------------------------------------------------------------
(* pipeline_orchestrator.run_full_pipeline: the three steps in one try.    *)
(* A step is the main of its module behind a wrapper that re-raises.       *)

PipelineSteps == <<"data_extraction", "data_transformation", "analytics_calculation">>

\* what a step's main returns: its status and a record count
MaxRecords == 4
StepResults == [status : {"success"}, records_processed : 0..MaxRecords]

InitPipeline ==
    /\ pipeline_pc = "next"
    /\ steps_started = <<>>
    /\ steps_completed = <<>>
    /\ overall_status = "running"
    /\ pipeline_result = NoData
    /\ OnlyPipeline

\* the step after the completed ones is entered
StartStep ==
    /\ pipeline_pc = "next"
    /\ Len(steps_completed) < Len(PipelineSteps)
    /\ steps_started' = Append(steps_started, PipelineSteps[Len(steps_completed) + 1])
    /\ pipeline_pc' = "in step"
    /\ UNCHANGED <<steps_completed, overall_status, pipeline_result, outside_pipeline>>

\* the step returned: its record is appended to steps_completed
StepReturns ==
    /\ pipeline_pc = "in step"
    /\ \E result \in StepResults :
          steps_completed' =
              Append(steps_completed,
                     [step |-> steps_started[Len(steps_started)],
                      status |-> "success",
                      result |-> result])
    /\ pipeline_pc' = "next"
    /\ UNCHANGED <<steps_started, overall_status, pipeline_result, outside_pipeline>>

\* the handler goes on with the next statement instead of raising
AfterStepRaisedContinue == "next"

\* where control is after the handler of lines 144-163 ran: it re-raises
AfterStepRaised == "raised"

\* the step raised: the wrapper re-raises, the handler of run_full_pipeline
\* marks the run as failed and re-raises
StepRaises ==
    /\ pipeline_pc = "in step"
    /\ overall_status' = "failed"
    /\ pipeline_pc' = AfterStepRaised
    /\ pipeline_result' = [raised |-> TRUE,
                           error |-> steps_started[Len(steps_started)]]
    /\ UNCHANGED <<steps_started, steps_completed, outside_pipeline>>

\* lines 127-142: all steps are through, the results are returned
PipelineReturns ==
    /\ pipeline_pc = "next"
    /\ Len(steps_completed) = Len(PipelineSteps)
    /\ overall_status' = "success"
    /\ pipeline_pc' = "returned"
    /\ pipeline_result' = [raised |-> FALSE,
                           steps_completed |-> steps_completed,
                           steps_failed |-> <<>>,
                           overall_status |-> "success"]
    /\ UNCHANGED <<steps_started, steps_completed, outside_pipeline>>

NextPipeline == StartStep \/ StepReturns \/ StepRaises \/ PipelineReturns

PipelineSpec == InitPipeline /\ [][NextPipeline]_vars

(* Claims about run_full_pipeline *)

IsPrefix(s, t) == Len(s) <= Len(t) /\ \A i \in 1..Len(s) : s[i] = t[i]

CompletedSteps == [i \in 1..Len(steps_completed) |-> steps_completed[i].step]

PipelineOrdered ==
    /\ IsPrefix(steps_started, PipelineSteps)
    /\ IsPrefix(CompletedSteps, steps_started)
    /\ Len(steps_started) <= Len(steps_completed) + 1
    /\ pipeline_pc = "in step" <=>
          (Len(steps_started) = Len(steps_completed) + 1 /\ overall_status = "running")

PipelineFailed ==
    /\ overall_status = "failed"
    /\ pipeline_pc = "raised"
    /\ pipeline_result.raised
    /\ Len(steps_started) = Len(steps_completed) + 1

\* C30: the steps are entered in the order extraction, transformation,
\* analytics, each only after the one before it returned; steps_completed is
\* always a prefix of that order; a step that raises leaves the run failed
\* with the exception re-raised, and no step is entered after it;
\* overall_status is "success" only with the three steps completed
C30_StrictOrder ==
    /\ [](/\ PipelineOrdered
          /\ IsPrefix(CompletedSteps, PipelineSteps)
          /\ overall_status = "failed" => PipelineFailed
          /\ overall_status = "success" =>
                (CompletedSteps = PipelineSteps /\ pipeline_pc = "returned"))
    /\ [][/\ overall_status = "failed" => UNCHANGED <<steps_started, overall_status>>
          /\ steps_started' # steps_started =>
                (/\ Len(steps_started) = Len(steps_completed)
                 /\ overall_status = "running"
                 /\ steps_started' =
                       Append(steps_started, PipelineSteps[Len(steps_completed) + 1]))
          /\ (pipeline_pc = "in step" /\ steps_completed' = steps_completed
                 /\ pipeline_pc' # "in step") => overall_status' = "failed"]_vars

\* the second step raised after the first had returned
C30_Witness ==
    /\ overall_status = "failed"
    /\ CompletedSteps = <<"data_extraction">>
    /\ steps_started = <<"data_extraction", "data_transformation">>

\* a run that went through
C30_SuccessReached ==
    /\ overall_status = "success"
    /\ pipeline_result.steps_completed = steps_completed

====
